---- MODULE Spec2Model ----
(***************************************************************************)
(* Contract-driven capability dispatch of matthewdart/toolbox:             *)
(* core/registry.py (plugin discovery, lazy binding) and core/dispatch.py  *)
(* (contract loading, JSON-Schema validation, envelope construction, the   *)
(* command line), the generators and the MCP server of adapters/, and the  *)
(* capabilities text.normalize_markdown, infra.* and bsport list_offers.   *)
(***************************************************************************)
EXTENDS Naturals, Sequences, FiniteSets, TLC

VARIABLES
    plugins,     \* capabilities/<dir>: what discovery finds in each plugin directory
    REGISTRY,    \* core.registry.REGISTRY: the ids bound to a lazy callable
    CONTRACTS,   \* core.registry.CONTRACTS: id -> the contract document discovery read
    resolved,    \* per id, the memo list _resolved of its _lazy_call (TRUE = non-empty)
    call,        \* the arguments and the environment of the last dispatch call
    outcome,     \* "idle" | "returned" | "raised": how the last dispatch call ended
    ret,         \* the envelope the last dispatch call returned
    raised,      \* the exception the last dispatch call propagated to its caller
    effects,     \* what the last dispatch call did: contract loaded, import attempted, implementation invoked
    discovery,   \* "pending" | "done" | "raised": the module-level call REGISTRY, CONTRACTS = _discover()
    sys_modules, \* sys.modules: the capability packages and implementation modules loaded so far
    attempted,   \* history: the ids whose _lazy_call has run its resolution branch
    race,        \* one closure's _resolved list and the threads running its _lazy_call
    gen,         \* the generators' files: contract documents, skills directory, tool files
    cli,         \* one run of the command `python -m core.dispatch`: arguments, stdout, exit code
    mcp,         \* the MCP server: the contracts it loaded and its last tool call
    norm,        \* the last call of normalize_markdown: its arguments and what it returned
    infra,       \* the last call of an infra capability: its arguments and what it did
    pager        \* collect_offers: where its pagination loop stands

vars == <<plugins, REGISTRY, CONTRACTS, resolved, call, outcome, ret, raised, effects,
          discovery, sys_modules, attempted, race, gen, cli, mcp, norm, infra, pager>>

\* the variables of the programs beside dispatch, registry and the generators
rest == <<cli, mcp, norm, infra, pager>>

\* the variables of dispatch, registry and the generators
core == <<plugins, REGISTRY, CONTRACTS, resolved, call, outcome, ret, raised, effects,
          discovery, sys_modules, attempted, race, gen>>

(***************************************************************************)
(* JSON values.  A value is a scalar of some kind or an object whose       *)
(* members are scalars; `fields` gives each member's kind, or Absent.      *)
(***************************************************************************)
Absent == "absent"

Fields == {"name", "text"}

\* sorted(Fields): the order str comparison gives
FieldOrder == <<"name", "text">>

MemberKinds == {"string", "number"}

Scalar(k) == [kind |-> k, fields |-> [f \in Fields |-> Absent]]

Obj(fs) == [kind |-> "object", fields |-> fs]

JsonObjects == {Obj(fs) : fs \in [Fields -> MemberKinds \cup {Absent}]}

JsonValues == {Scalar("number"), Scalar("null")} \cup JsonObjects

\* repr() of a value, as jsonschema interpolates it into a message
Repr(v) ==
    CASE v.kind = "number" -> "123"
      [] v.kind = "null" -> "None"
      [] v.kind = "string" -> "'s'"
      [] OTHER -> "{...}"

(***************************************************************************)
(* JSON Schemas: the keywords the contracts use on their top-level object. *)
(* type: "object" or "any" (keyword absent); props[f]: the declared type   *)
(* of member f, "any", or Absent (member not declared).                    *)
(***************************************************************************)
\* text.normalize_markdown: {text: string}, text required
TextSchema ==
    [type |-> "object",
     props |-> [f \in Fields |-> IF f = "text" THEN "string" ELSE Absent],
     required |-> <<"text">>,
     additional |-> FALSE]

\* two required members, as infra.spawn_instance requires template and name
PairSchema ==
    [type |-> "object",
     props |-> [f \in Fields |-> "string"],
     required |-> <<"name", "text">>,
     additional |-> FALSE]

\* a schema that does not constrain the type of the value
LooseSchema ==
    [type |-> "any",
     props |-> [f \in Fields |-> IF f = "text" THEN "string" ELSE Absent],
     required |-> <<>>,
     additional |-> TRUE]

Schemas == {TextSchema, PairSchema, LooseSchema}

(***************************************************************************)
(* jsonschema: iter_errors.  Each violation carries a message, the path to *)
(* the offending INSTANCE (empty for the top-level value) and the path to  *)
(* the violated keyword of the schema.  Keywords are visited in the order  *)
(* the contract documents write them: type, properties, required,          *)
(* additionalProperties; all but `type` apply to objects only.             *)
(***************************************************************************)
ValidationError(message, path, schema_path) ==
    [message |-> message, path |-> path, schema_path |-> schema_path]

TypeErrors(schema, instance) ==
    IF schema.type = "object" /\ instance.kind # "object"
    THEN <<ValidationError(Repr(instance) \o " is not of type 'object'", <<>>, <<"type">>)>>
    ELSE <<>>

PropertyErrors(schema, instance) ==
    LET Bad(f) == /\ schema.props[f] \in MemberKinds
                  /\ instance.fields[f] # Absent
                  /\ instance.fields[f] # schema.props[f]
        bad == SelectSeq(FieldOrder, Bad)
    IN  [i \in 1..Len(bad) |->
            ValidationError(Repr(Scalar(instance.fields[bad[i]])) \o " is not of type '"
                                \o schema.props[bad[i]] \o "'",
                            <<bad[i]>>,
                            <<"properties", bad[i], "type">>)]

\* RequiredErrors that stops at the first missing member
RequiredErrorsFirstOnly(schema, instance) ==
    LET Missing(f) == instance.fields[f] = Absent
        missing == SelectSeq(schema.required, Missing)
    IN  IF missing = <<>> THEN <<>>
        ELSE <<ValidationError("'" \o missing[1] \o "' is a required property",
                               <<>>,
                               <<"required">>)>>

RequiredErrors(schema, instance) ==
    LET Missing(f) == instance.fields[f] = Absent
        missing == SelectSeq(schema.required, Missing)
    IN  [i \in 1..Len(missing) |->
            ValidationError("'" \o missing[i] \o "' is a required property",
                            <<>>,
                            <<"required">>)]

AdditionalErrors(schema, instance) ==
    LET Extra(f) == instance.fields[f] # Absent /\ schema.props[f] = Absent
        extras == SelectSeq(FieldOrder, Extra)
    IN  IF ~schema.additional /\ extras # <<>>
        THEN <<ValidationError("Additional properties are not allowed ('" \o extras[1]
                                   \o "' was unexpected)",
                               <<>>,
                               <<"additionalProperties">>)>>
        ELSE <<>>

iter_errors(schema, instance) ==
    IF instance.kind = "object"
    THEN TypeErrors(schema, instance) \o PropertyErrors(schema, instance)
            \o RequiredErrors(schema, instance) \o AdditionalErrors(schema, instance)
    ELSE TypeErrors(schema, instance)

\* the sort key list(e.path): [] sorts first, then the member names in str order
PathRank(path) ==
    IF path = <<>> THEN 0
    ELSE CHOOSE i \in 1..Len(FieldOrder) : FieldOrder[i] = path[1]

RECURSIVE SortFrom(_, _)
SortFrom(errors, rank) ==
    IF rank > Len(FieldOrder) THEN <<>>
    ELSE LET HasRank(e) == PathRank(e.path) = rank
         IN  SelectSeq(errors, HasRank) \o SortFrom(errors, rank + 1)

\* sorted(errors, key=lambda e: list(e.path)): a stable sort
SortedByPath(errors) == SortFrom(errors, 0)

(***************************************************************************)
(* Exceptions.  DispatchError is the dataclass (code, message, details);   *)
(* every other exception carries its positional args.  details is None     *)
(* (none = TRUE) or a list of items.                                       *)
(***************************************************************************)
NoDetails == [none |-> TRUE, items |-> <<>>]

Details(items) == [none |-> FALSE, items |-> items]

DispatchError(code, message, details) ==
    [cls |-> "DispatchError", code |-> code, message |-> message, details |-> details,
     args |-> <<>>]

PyError(cls, args) ==
    [cls |-> cls, code |-> "", message |-> "", details |-> NoDetails, args |-> args]

NoExc == PyError("none", <<>>)

\* the classes that derive from Exception; SystemExit and KeyboardInterrupt derive
\* from BaseException only
ExceptionClasses ==
    {"DispatchError", "RuntimeError", "KeyError", "TypeError", "AttributeError",
     "ModuleNotFoundError", "JSONDecodeError", "SchemaError"}

\* str(exc): '' without args, the argument itself for one argument, except that
\* KeyError gives the argument's repr
Str(exc) ==
    IF exc.args = <<>> THEN ""
    ELSE IF exc.cls = "KeyError" THEN "'" \o exc.args[1] \o "'"
    ELSE exc.args[1]

(***************************************************************************)
(* The contract store dispatch reads: CONTRACTS_DIR/<id>.v1.json.          *)
(* A schema slot of the document: the key is missing (contract.get gives   *)
(* None), holds {} (empty), holds a schema check_schema rejects (invalid)  *)
(* or a schema (ok).                                                       *)
(***************************************************************************)
Slot(state, schema) == [state |-> state, schema |-> schema]

MissingSlot == Slot("missing", LooseSchema)

EmptySlot == Slot("empty", LooseSchema)

InvalidSlot == Slot("invalid", LooseSchema)

\* bool(slot): None and {} are falsy
Truthy(slot) == slot.state \in {"invalid", "ok"}

ContractFile(state, input_schema, output_schema) ==
    [state |-> state, input_schema |-> input_schema, output_schema |-> output_schema]

\* no file, a file that is not JSON, a JSON document that is not an object
MissingFile == ContractFile("missing", MissingSlot, MissingSlot)

MalformedFile == ContractFile("malformed", MissingSlot, MissingSlot)

NonDictFile == ContractFile("nondict", MissingSlot, MissingSlot)

InputSlots == {MissingSlot, EmptySlot, InvalidSlot} \cup {Slot("ok", s) : s \in Schemas}

OutputSlots == {MissingSlot, EmptySlot, InvalidSlot, Slot("ok", TextSchema)}

ContractFiles ==
    {MissingFile, MalformedFile, NonDictFile}
        \cup {ContractFile("doc", i, o) : i \in InputSlots, o \in OutputSlots}

\* the outcome of a step that may raise: the exception (NoExc when it returned)
\* and the value it returned
Returns(value) == [exc |-> NoExc, value |-> value]

Raises(exc) == [exc |-> exc, value |-> Scalar("null")]

\* _load_contract that reports a missing file as an invalid contract
_load_contract_invalid(capability_id, file) ==
    IF file.state = "missing"
    THEN Raises(DispatchError("contract_invalid",
                              "contract not found: " \o capability_id \o ".v1.json",
                              NoDetails))
    ELSE IF file.state = "malformed"
    THEN Raises(PyError("JSONDecodeError", <<"Expecting value: line 1 column 1 (char 0)">>))
    ELSE Returns(file)

_load_contract(capability_id, file) ==
    IF file.state = "missing"
    THEN Raises(DispatchError("contract_not_found",
                              "contract not found: " \o capability_id \o ".v1.json",
                              NoDetails))
    ELSE IF file.state = "malformed"
    THEN Raises(PyError("JSONDecodeError", <<"Expecting value: line 1 column 1 (char 0)">>))
    ELSE Returns(file)

_format_validation_error(err) ==
    [message |-> err.message, path |-> err.path, schema_path |-> err.schema_path]

\* _validate that lets every returned value pass
_validate_input_only(slot, payload, error_code) ==
    IF slot.state = "invalid"
    THEN PyError("SchemaError", <<"'objekt' is not valid under any of the given schemas">>)
    ELSE LET errors == SortedByPath(iter_errors(slot.schema, payload))
         IN  IF errors # <<>> /\ error_code = "validation_error"
             THEN DispatchError(error_code, "schema validation failed",
                                Details([i \in 1..Len(errors) |->
                                            _format_validation_error(errors[i])]))
             ELSE NoExc

_validate(slot, payload, error_code) ==
    IF slot.state = "invalid"
    THEN PyError("SchemaError", <<"'objekt' is not valid under any of the given schemas">>)
    ELSE LET errors == SortedByPath(iter_errors(slot.schema, payload))
         IN  IF errors # <<>>
             THEN DispatchError(error_code, "schema validation failed",
                                Details([i \in 1..Len(errors) |->
                                            _format_validation_error(errors[i])]))
             ELSE NoExc

(***************************************************************************)
(* core/registry.py: discovery over the plugin directories.                *)
(***************************************************************************)
\* sorted(CAPABILITIES_DIR.iterdir())
Dirs == <<"infra_spawn_instance", "text_normalize_markdown">>

CapabilityIdOf(dir) ==
    IF dir = "infra_spawn_instance" THEN "infra.spawn_instance" ELSE "text.normalize_markdown"

EntryPointAttrOf(dir) ==
    IF dir = "infra_spawn_instance" THEN "spawn_instance" ELSE "normalize_markdown"

\* a well-formed plugin directory: contract.v1.json with a name, __init__.py
\* exporting ENTRY_POINT_MODULE and ENTRY_POINT_ATTR
ValidPlugin(dir) ==
    [is_dir |-> TRUE,
     contract_file |-> TRUE,
     init_file |-> TRUE,
     contract_json |-> "ok",
     name |-> CapabilityIdOf(dir),
     input_schema |-> Slot("ok", IF dir = "infra_spawn_instance" THEN PairSchema ELSE TextSchema),
     output_schema |-> Slot("ok", TextSchema),
     package_imports |-> TRUE,
     ENTRY_POINT_MODULE |-> "capabilities." \o dir \o ".implementation",
     ENTRY_POINT_ATTR |-> EntryPointAttrOf(dir)]

\* the well-formed plugin and the ways a directory falls short of it
PluginStates(dir) ==
    {ValidPlugin(dir),
     [ValidPlugin(dir) EXCEPT !.is_dir = FALSE],
     [ValidPlugin(dir) EXCEPT !.contract_file = FALSE],
     [ValidPlugin(dir) EXCEPT !.init_file = FALSE],
     [ValidPlugin(dir) EXCEPT !.name = ""],
     [ValidPlugin(dir) EXCEPT !.package_imports = FALSE],
     [ValidPlugin(dir) EXCEPT !.ENTRY_POINT_MODULE = ""],
     [ValidPlugin(dir) EXCEPT !.ENTRY_POINT_ATTR = ""]}

\* ... and a contract.v1.json that json.load rejects, or that is not a JSON object
AllPluginStates(dir) ==
    PluginStates(dir)
        \cup {[ValidPlugin(dir) EXCEPT !.contract_json = "malformed"],
              [ValidPlugin(dir) EXCEPT !.contract_json = "nondict"]}

\* whether the loop body reaches registry[capability_id] = ... for this child
Registers(child) ==
    /\ child.is_dir
    /\ child.contract_file /\ child.init_file
    /\ child.contract_json = "ok"
    /\ child.name # ""
    /\ child.package_imports
    /\ child.ENTRY_POINT_MODULE # "" /\ child.ENTRY_POINT_ATTR # ""

\* _make_lazy(mod_name, attr_name): the closure's captured names
_make_lazy(mod_name, attr_name) == [mod_name |-> mod_name, attr_name |-> attr_name]

\* the contract document discovery keeps for a child
ContractOf(dir, child) ==
    [name |-> child.name, dir |-> dir,
     input_schema |-> child.input_schema, output_schema |-> child.output_schema]

\* what the loop has built so far; exc is the exception that ended it, if any
Discovered(registry, contracts, exc) ==
    [registry |-> registry, contracts |-> contracts, exc |-> exc]

\* RegisterChild that records the contract before it looks for the entry point
RegisterChildContractFirst(dir, child, acc) ==
    IF ~child.is_dir \/ ~child.contract_file \/ ~child.init_file
    THEN acc
    ELSE IF child.contract_json = "malformed"
    THEN Discovered(acc.registry, acc.contracts,
                    PyError("JSONDecodeError", <<"Expecting value: line 1 column 1 (char 0)">>))
    ELSE IF child.contract_json = "nondict"
    THEN Discovered(acc.registry, acc.contracts,
                    PyError("AttributeError", <<"'list' object has no attribute 'get'">>))
    ELSE IF child.name = ""
    THEN acc
    ELSE IF ~child.package_imports \/ child.ENTRY_POINT_MODULE = "" \/ child.ENTRY_POINT_ATTR = ""
    THEN Discovered(acc.registry,
                    (child.name :> ContractOf(dir, child)) @@ acc.contracts,
                    NoExc)
    ELSE Discovered((child.name :> _make_lazy(child.ENTRY_POINT_MODULE,
                                              child.ENTRY_POINT_ATTR)) @@ acc.registry,
                    (child.name :> ContractOf(dir, child)) @@ acc.contracts,
                    NoExc)

\* the body of the loop over the children of capabilities/
RegisterChild(dir, child, acc) ==
    IF ~child.is_dir \/ ~child.contract_file \/ ~child.init_file
    THEN acc
    ELSE IF child.contract_json = "malformed"
    THEN Discovered(acc.registry, acc.contracts,
                    PyError("JSONDecodeError", <<"Expecting value: line 1 column 1 (char 0)">>))
    ELSE IF child.contract_json = "nondict"
    THEN Discovered(acc.registry, acc.contracts,
                    PyError("AttributeError", <<"'list' object has no attribute 'get'">>))
    ELSE IF child.name = ""
    THEN acc
    ELSE IF ~child.package_imports
    THEN acc
    ELSE IF child.ENTRY_POINT_MODULE = "" \/ child.ENTRY_POINT_ATTR = ""
    THEN acc
    ELSE Discovered((child.name :> _make_lazy(child.ENTRY_POINT_MODULE,
                                              child.ENTRY_POINT_ATTR)) @@ acc.registry,
                    (child.name :> ContractOf(dir, child)) @@ acc.contracts,
                    NoExc)

RECURSIVE DiscoverFrom(_, _, _)
DiscoverFrom(dirs, i, acc) ==
    IF i > Len(Dirs) \/ acc.exc # NoExc THEN acc
    ELSE DiscoverFrom(dirs, i + 1, RegisterChild(Dirs[i], dirs[Dirs[i]], acc))

_discover(dirs) == DiscoverFrom(dirs, 1, Discovered(<<>>, <<>>, NoExc))

\* the children whose json.load the loop reaches: those before the first that raises
RECURSIVE ReachedFrom(_, _)
ReachedFrom(dirs, i) ==
    IF i > Len(Dirs) THEN {}
    ELSE IF RegisterChild(Dirs[i], dirs[Dirs[i]], Discovered(<<>>, <<>>, NoExc)).exc # NoExc
    THEN {Dirs[i]}
    ELSE {Dirs[i]} \cup ReachedFrom(dirs, i + 1)

\* importlib.import_module(f"capabilities.{child.name}") of the loop: the packages
\* discovery leaves in sys.modules
PackagesImported(dirs) ==
    {"capabilities." \o d : d \in {r \in ReachedFrom(dirs, 1) :
        /\ dirs[r].is_dir
        /\ dirs[r].contract_file /\ dirs[r].init_file
        /\ dirs[r].contract_json = "ok"
        /\ dirs[r].name # ""
        /\ dirs[r].package_imports}}

(***************************************************************************)
(* The environment of one dispatch call: the contract file on disk, what   *)
(* importing the implementation module gives, and what the implementation  *)
(* does when it is called.                                                 *)
(***************************************************************************)
Payloads ==
    {Scalar("number")} \cup {v \in JsonObjects : v.fields["name"] # "number"}

Results == {v \in JsonValues : v.fields["name"] = Absent}

ImplErrors ==
    {DispatchError("dependency_missing", "docker not found", NoDetails),
     DispatchError("validation_error", "bad name",
                   Details(<<ValidationError("bad name", <<"name">>, <<>>)>>)),
     PyError("RuntimeError", <<"Invalid template name: 'a;b'">>),
     PyError("RuntimeError", <<>>),
     PyError("KeyError", <<"text">>),
     PyError("SystemExit", <<"1">>)}

Behaviours == {Returns(v) : v \in Results} \cup {Raises(e) : e \in ImplErrors}

ImportOutcomes == {"ok", "import_error", "missing_attr"}

Environment(file, import, behaviour) ==
    [file |-> file, import |-> import, behaviour |-> behaviour]

\* nothing of the environment is read
NoEnvironment == Environment(MissingFile, "ok", Returns(Scalar("null")))

Environments ==
    {Environment(f, i, b) : f \in ContractFiles, i \in ImportOutcomes, b \in Behaviours}

(***************************************************************************)
(* core/dispatch.py: dispatch.                                             *)
(***************************************************************************)
\* what a run of the try block did besides returning or raising
Trace(loaded, imported, invoked) ==
    [loaded |-> loaded, imported |-> imported, invoked |-> invoked]

NoTrace == Trace(FALSE, FALSE, FALSE)

\* a step's outcome together with the memo it leaves and what it did
Step(result, memo, trace) ==
    [exc |-> result.exc, value |-> result.value, memo |-> memo, trace |-> trace]

\* _lazy_call without `if not _resolved`: resolves on every call
_lazy_call_unmemoized(memo, env) ==
    IF env.import = "import_error"
    THEN Step(Raises(PyError("ModuleNotFoundError", <<"No module named 'docker'">>)),
              memo, Trace(TRUE, TRUE, FALSE))
    ELSE IF env.import = "missing_attr"
    THEN Step(Raises(PyError("AttributeError", <<"module has no attribute">>)),
              memo, Trace(TRUE, TRUE, FALSE))
    ELSE Step(env.behaviour, TRUE, Trace(TRUE, TRUE, TRUE))

\* _lazy_call that remembers a failed resolution as if it had succeeded
_lazy_call_caches_failure(memo, env) ==
    IF ~memo /\ env.import = "import_error"
    THEN Step(Raises(PyError("ModuleNotFoundError", <<"No module named 'docker'">>)),
              TRUE, Trace(TRUE, TRUE, FALSE))
    ELSE IF ~memo /\ env.import = "missing_attr"
    THEN Step(Raises(PyError("AttributeError", <<"module has no attribute">>)),
              TRUE, Trace(TRUE, TRUE, FALSE))
    ELSE Step(env.behaviour, TRUE, Trace(TRUE, ~memo, TRUE))

\* _lazy_call(**kwargs): resolve on an empty memo, then call the implementation
_lazy_call(memo, env) ==
    IF ~memo /\ env.import = "import_error"
    THEN Step(Raises(PyError("ModuleNotFoundError", <<"No module named 'docker'">>)),
              memo, Trace(TRUE, TRUE, FALSE))
    ELSE IF ~memo /\ env.import = "missing_attr"
    THEN Step(Raises(PyError("AttributeError", <<"module has no attribute">>)),
              memo, Trace(TRUE, TRUE, FALSE))
    ELSE Step(env.behaviour, TRUE, Trace(TRUE, ~memo, TRUE))

\* SchemasPresent that forgets the output schema
SchemasPresentInputOnly(contract) == Truthy(contract.input_schema)

\* `if not input_schema or not output_schema` is false
SchemasPresent(contract) ==
    Truthy(contract.input_schema) /\ Truthy(contract.output_schema)

\* the try block of dispatch: load, check, validate, invoke, validate
TryBlock(capability_id, payload, env, memo) ==
    LET contract == _load_contract(capability_id, env.file)
        loaded == Trace(TRUE, FALSE, FALSE)
    IN  IF contract.exc # NoExc
        THEN Step(contract, memo, loaded)
        ELSE IF contract.value.state = "nondict"
        THEN Step(Raises(PyError("AttributeError",
                                 <<"'list' object has no attribute 'get'">>)),
                  memo, loaded)
        ELSE IF ~SchemasPresent(contract.value)
        THEN Step(Raises(DispatchError("contract_invalid",
                                       "contract missing input/output schema",
                                       NoDetails)),
                  memo, loaded)
        ELSE LET invalid == _validate(contract.value.input_schema, payload,
                                      "validation_error")
             IN  IF invalid # NoExc
                 THEN Step(Raises(invalid), memo, loaded)
                 ELSE IF payload.kind # "object"
                 THEN Step(Raises(PyError("TypeError",
                                          <<"argument after ** must be a mapping">>)),
                           memo, loaded)
                 ELSE LET called == _lazy_call(memo, env)
                          mismatch == _validate(contract.value.output_schema,
                                                called.value,
                                                "output_validation_error")
                      IN  IF called.exc # NoExc
                          THEN called
                          ELSE IF mismatch # NoExc
                          THEN Step(Raises(mismatch), called.memo, called.trace)
                          ELSE called

\* OkEnvelope that returns None for the result
OkEnvelopeNull(result) == [ok |-> TRUE, result |-> Scalar("null")]

\* the envelopes
OkEnvelope(result) == [ok |-> TRUE, result |-> result]

\* NotFoundEnvelope whose message leaves the id out
NotFoundEnvelopeNoId(capability_id) ==
    [ok |-> FALSE,
     error |-> [type |-> "capability_not_found", message |-> "unknown capability"]]

NotFoundEnvelope(capability_id) ==
    [ok |-> FALSE,
     error |-> [type |-> "capability_not_found",
                message |-> "unknown capability: " \o capability_id]]

\* DispatchErrorEnvelope that drops the details
DispatchErrorEnvelopeNoDetails(exc) ==
    [ok |-> FALSE,
     error |-> [type |-> exc.code, message |-> exc.message, details |-> NoDetails]]

DispatchErrorEnvelope(exc) ==
    [ok |-> FALSE,
     error |-> [type |-> exc.code, message |-> exc.message, details |-> exc.details]]

\* CapabilityErrorEnvelope that reports the exception's class for its message
CapabilityErrorEnvelopeClassName(exc) ==
    [ok |-> FALSE,
     error |-> [type |-> "capability_error", message |-> exc.cls]]

\* CapabilityErrorEnvelope that also carries a null result
CapabilityErrorEnvelopeWithResult(exc) ==
    [ok |-> FALSE,
     result |-> Scalar("null"),
     error |-> [type |-> "capability_error", message |-> Str(exc)]]

CapabilityErrorEnvelope(exc) ==
    [ok |-> FALSE,
     error |-> [type |-> "capability_error", message |-> Str(exc)]]

NoEnvelope == [absent |-> TRUE]

\* how a call ends: with an envelope, or with an exception its caller sees
Returned(envelope, memo, trace) ==
    [outcome |-> "returned", ret |-> envelope, raised |-> NoExc, memo |-> memo,
     trace |-> trace]

Propagated(exc, memo, trace) ==
    [outcome |-> "raised", ret |-> NoEnvelope, raised |-> exc, memo |-> memo,
     trace |-> trace]

\* Handled without the `except Exception` clause
HandledTypedOnly(step) ==
    IF step.exc = NoExc
    THEN Returned(OkEnvelope(step.value), step.memo, step.trace)
    ELSE IF step.exc.cls = "DispatchError"
    THEN Returned(DispatchErrorEnvelope(step.exc), step.memo, step.trace)
    ELSE Propagated(step.exc, step.memo, step.trace)

\* except DispatchError / except Exception: the handler that matches
Handled(step) ==
    IF step.exc = NoExc
    THEN Returned(OkEnvelope(step.value), step.memo, step.trace)
    ELSE IF step.exc.cls = "DispatchError"
    THEN Returned(DispatchErrorEnvelope(step.exc), step.memo, step.trace)
    ELSE IF step.exc.cls \in ExceptionClasses
    THEN Returned(CapabilityErrorEnvelope(step.exc), step.memo, step.trace)
    ELSE Propagated(step.exc, step.memo, step.trace)

dispatch(capability_id, payload, env, memo) ==
    IF capability_id \notin DOMAIN REGISTRY
    THEN Returned(NotFoundEnvelope(capability_id), memo, NoTrace)
    ELSE Handled(TryBlock(capability_id, payload, env, memo))

(***************************************************************************)
(* The state machine: a caller dispatches; the call ends; the caller takes *)
(* what it got and may dispatch again.                                     *)
(***************************************************************************)
Ids == {"infra.spawn_instance", "text.normalize_markdown", "nonexistent.id"}

\* no generator has run
NoGen == [docs |-> <<>>]

\* no thread is inside a _lazy_call
NoRace == [threads |-> {}]

NoCall ==
    [capability_id |-> "", payload |-> Scalar("null"), env |-> NoEnvironment,
     memo |-> FALSE, retry |-> FALSE]

\* the dispatch command has not run
NoCli == [ran |-> FALSE]

\* adapters.mcp.server has not been imported
NoMcp == [state |-> "unloaded", called |-> FALSE]

\* normalize_markdown has not been called
NoNorm == [done |-> FALSE]

\* no infra capability has been called
NoInfra == [done |-> FALSE]

\* collect_offers has not been called
NoPager == [pc |-> "idle"]

\* no other program has run
RestIdle ==
    /\ cli = NoCli
    /\ mcp = NoMcp
    /\ norm = NoNorm
    /\ infra = NoInfra
    /\ pager = NoPager

Init ==
    /\ plugins \in [{Dirs[i] : i \in 1..Len(Dirs)} -> UNION {PluginStates(Dirs[i]) : i \in 1..Len(Dirs)}]
    /\ \A i \in 1..Len(Dirs) : plugins[Dirs[i]] \in PluginStates(Dirs[i])
    /\ REGISTRY = _discover(plugins).registry
    /\ CONTRACTS = _discover(plugins).contracts
    /\ resolved = [id \in DOMAIN _discover(plugins).registry |-> FALSE]
    /\ call = NoCall
    /\ outcome = "idle"
    /\ ret = NoEnvelope
    /\ raised = NoExc
    /\ effects = NoTrace
    /\ discovery = "done"
    /\ sys_modules = PackagesImported(plugins)
    /\ attempted = {}
    /\ race = NoRace
    /\ gen = NoGen
    /\ RestIdle

\* late binding: every closure sees the loop's last ep_module
ModuleOfLateBinding(capability_id) ==
    LET ids == {id \in DOMAIN REGISTRY : \A other \in DOMAIN REGISTRY :
                    CONTRACTS[other].dir = CONTRACTS[id].dir
                    \/ \E i, j \in 1..Len(Dirs) : /\ i < j
                                                   /\ Dirs[i] = CONTRACTS[other].dir
                                                   /\ Dirs[j] = CONTRACTS[id].dir}
    IN  REGISTRY[CHOOSE id \in ids : TRUE].mod_name

\* f without key k
Without(f, k) == [x \in DOMAIN f \ {k} |-> f[x]]

\* a dispatch that drops the capability whose entry point failed to resolve
DiscoveredAfterEviction(found, capability_id, done) ==
    IF done.trace.imported /\ ~done.trace.invoked
    THEN Discovered(Without(found.registry, capability_id),
                    Without(found.contracts, capability_id), NoExc)
    ELSE found

\* dispatch only reads REGISTRY (`in`, subscript) and never names CONTRACTS: the
\* maps after a call are the maps before it
DiscoveredAfter(found, capability_id, done) == found

\* one _resolved list shared by all closures
MemoAfterShared(memos, capability_id, memo) == [id \in DOMAIN memos |-> memo]

\* each closure of _make_lazy has a _resolved of its own: a call writes only its own
MemoAfter(memos, capability_id, memo) == [memos EXCEPT ![capability_id] = memo]

\* the mod_name the closure registered under capability_id passes to import_module
ModuleOf(capability_id) == REGISTRY[capability_id].mod_name

\* the environments a call to this id can read: a resolved entry point imports
\* nothing, and a module already in sys.modules without the attribute is returned
\* as it is by the next import_module
EnvironmentsOf(capability_id) ==
    IF capability_id \in DOMAIN REGISTRY
    THEN {e \in Environments :
            /\ resolved[capability_id] => e.import = "ok"
            /\ (~resolved[capability_id] /\ ModuleOf(capability_id) \in sys_modules)
                    => e.import = "missing_attr"}
    ELSE {NoEnvironment}

\* what importlib.import_module(mod_name) in _lazy_call leaves in sys.modules
ModulesLoaded(capability_id, env, trace) ==
    IF trace.imported /\ env.import # "import_error"
    THEN {ModuleOf(capability_id)}
    ELSE {}

Dispatch ==
    /\ outcome = "idle"
    /\ \E capability_id \in Ids, payload \in Payloads :
         \E env \in EnvironmentsOf(capability_id) :
            LET memo == IF capability_id \in DOMAIN REGISTRY
                        THEN resolved[capability_id] ELSE FALSE
                done == dispatch(capability_id, payload, env, memo)
            IN  /\ call' = [capability_id |-> capability_id, payload |-> payload,
                            env |-> env, memo |-> memo,
                            retry |-> capability_id \in attempted]
                /\ outcome' = done.outcome
                /\ ret' = done.ret
                /\ raised' = done.raised
                /\ effects' = done.trace
                /\ resolved' = IF capability_id \in DOMAIN REGISTRY
                               THEN MemoAfter(resolved, capability_id, done.memo)
                               ELSE resolved
                /\ sys_modules' = sys_modules \cup ModulesLoaded(capability_id, env, done.trace)
                /\ attempted' = IF done.trace.imported
                                THEN attempted \cup {capability_id} ELSE attempted
                /\ REGISTRY' = DiscoveredAfter(Discovered(REGISTRY, CONTRACTS, NoExc),
                                                capability_id, done).registry
                /\ CONTRACTS' = DiscoveredAfter(Discovered(REGISTRY, CONTRACTS, NoExc),
                                                 capability_id, done).contracts
    /\ UNCHANGED <<plugins, discovery, race, gen, rest>>

\* the caller has its answer
Done ==
    /\ outcome # "idle"
    /\ call' = NoCall
    /\ outcome' = "idle"
    /\ ret' = NoEnvelope
    /\ raised' = NoExc
    /\ effects' = NoTrace
    /\ UNCHANGED <<plugins, REGISTRY, CONTRACTS, resolved, discovery, sys_modules, attempted, race, gen, rest>>

Next == Dispatch \/ Done

Spec == Init /\ [][Next]_vars

(***************************************************************************)
(* Reading the last call, for the properties below.                        *)
(***************************************************************************)
Called == outcome # "idle"

CallRegistered == Called /\ call.capability_id \in DOMAIN REGISTRY

\* the contract file of the call is a JSON object
CallHasDocument == CallRegistered /\ call.env.file.state = "doc"

\* ... with a non-empty input_schema and a non-empty output_schema
CallContractValid ==
    /\ CallHasDocument
    /\ call.env.file.input_schema.state \in {"invalid", "ok"}
    /\ call.env.file.output_schema.state \in {"invalid", "ok"}

\* the payload has zero violations of the input schema
CallPayloadConforms ==
    /\ CallContractValid
    /\ call.env.file.input_schema.state = "ok"
    /\ iter_errors(call.env.file.input_schema.schema, call.payload) = <<>>

\* the implementation ran and returned a value / raised
ImplReturned == Called /\ effects.invoked /\ call.env.behaviour.exc = NoExc

ImplRaised == Called /\ effects.invoked /\ call.env.behaviour.exc # NoExc

\* value has zero violations of the output schema of the call's contract
ConformsToOutput(value) ==
    /\ call.env.file.output_schema.state = "ok"
    /\ iter_errors(call.env.file.output_schema.schema, value) = <<>>

ViolatesOutput(value) ==
    /\ call.env.file.output_schema.state = "ok"
    /\ iter_errors(call.env.file.output_schema.schema, value) # <<>>

ErrorType(type) ==
    /\ outcome = "returned"
    /\ ~ret.ok
    /\ "error" \in DOMAIN ret
    /\ ret.error.type = type

(***************************************************************************)
(* Properties of dispatch.                                                 *)
(***************************************************************************)

C2_ExactlyOneOfResultError ==
    outcome = "returned" =>
        /\ "ok" \in DOMAIN ret
        /\ ("result" \in DOMAIN ret) <=> ret.ok
        /\ ("error" \in DOMAIN ret) <=> ~ret.ok

\* an error envelope of the catch-all was returned
C2_Witness ==
    /\ outcome = "returned"
    /\ DOMAIN ret = {"ok", "error"}
    /\ ret.error.type = "capability_error"

\* C3: the implementation is invoked only if the id is registered, the loaded
\* contract has a non-empty input_schema and output_schema and the payload has zero
\* violations of the input schema; in every other case it is not invoked and the
\* envelope has ok = false.
C3_InvokedOnlyAfterValidation ==
    Called =>
        /\ effects.invoked => CallPayloadConforms
        /\ ~CallPayloadConforms =>
              /\ ~effects.invoked
              /\ outcome = "returned"
              /\ ~ret.ok

\* a payload with violations was turned away without invocation
C3_Witness ==
    /\ CallContractValid
    /\ call.env.file.input_schema.state = "ok"
    /\ iter_errors(call.env.file.input_schema.schema, call.payload) # <<>>
    /\ ~effects.invoked
    /\ ErrorType("validation_error")

\* C4: for an id absent from the registry dispatch returns ok = false with type
\* capability_not_found and message "unknown capability: <id>", loading no contract
\* and invoking no implementation.
C4_UnknownCapability ==
    (Called /\ call.capability_id \notin DOMAIN REGISTRY) =>
        /\ outcome = "returned"
        /\ ret = [ok |-> FALSE,
                  error |-> [type |-> "capability_not_found",
                             message |-> "unknown capability: " \o call.capability_id]]
        /\ ~effects.loaded
        /\ ~effects.imported
        /\ ~effects.invoked

\* nonexistent.id was dispatched
C4_Witness ==
    /\ Called
    /\ call.capability_id = "nonexistent.id"
    /\ call.capability_id \notin DOMAIN REGISTRY
    /\ ErrorType("capability_not_found")

\* C5 (as claimed): for a registered id and a conforming payload, if the
\* implementation returns v without raising, dispatch returns ok = true with
\* result = v and v conforms to the output schema.
C5_ReturnedValueIsResult ==
    (CallRegistered /\ CallPayloadConforms /\ ImplReturned) =>
        /\ outcome = "returned"
        /\ ret = [ok |-> TRUE, result |-> call.env.behaviour.value]
        /\ ConformsToOutput(call.env.behaviour.value)

\* C5 (amended): for a registered id and a conforming payload, if the implementation
\* returns v without raising and v conforms to the output schema, dispatch returns
\* ok = true with result = v; dispatch does not make v conform, and a v that violates
\* the output schema is not returned with ok = true.
C5_ConformingValueIsResult ==
    (CallRegistered /\ CallPayloadConforms /\ ImplReturned) =>
        /\ ConformsToOutput(call.env.behaviour.value) =>
              /\ outcome = "returned"
              /\ ret = [ok |-> TRUE, result |-> call.env.behaviour.value]
        /\ ViolatesOutput(call.env.behaviour.value) =>
              /\ outcome = "returned"
              /\ ~ret.ok

\* a conforming value came back as the result
C5_Witness ==
    /\ CallRegistered /\ CallPayloadConforms /\ ImplReturned
    /\ ConformsToOutput(call.env.behaviour.value)
    /\ outcome = "returned"
    /\ ret.ok
    /\ ret.result = call.env.behaviour.value

\* C6: dispatch never returns ok = true with a result that violates the output
\* schema: a non-conforming returned value gives ok = false with type
\* output_validation_error and no result key.
C6_NoNonConformingResult ==
    /\ (outcome = "returned" /\ ret.ok) => ConformsToOutput(ret.result)
    /\ (ImplReturned /\ ViolatesOutput(call.env.behaviour.value)) =>
          /\ ErrorType("output_validation_error")
          /\ "result" \notin DOMAIN ret

\* the implementation returned a value that violates the output schema
C6_Witness ==
    /\ ImplReturned
    /\ ViolatesOutput(call.env.behaviour.value)
    /\ ErrorType("output_validation_error")

C8_TypedErrorVerbatim ==
    (ImplRaised /\ call.env.behaviour.exc.cls = "DispatchError") =>
        /\ outcome = "returned"
        /\ ret = [ok |-> FALSE,
                  error |-> [type |-> call.env.behaviour.exc.code,
                             message |-> call.env.behaviour.exc.message,
                             details |-> call.env.behaviour.exc.details]]

\* the implementation raised a DispatchError that carries details
C8_Witness ==
    /\ ImplRaised
    /\ call.env.behaviour.exc.cls = "DispatchError"
    /\ ~call.env.behaviour.exc.details.none
    /\ outcome = "returned"
    /\ ret.error.details = call.env.behaviour.exc.details

\* what str() gives for the exceptions the implementation raises here
ExpectedStr(exc) ==
    CASE exc.args = <<>> -> ""
      [] exc.args = <<"text">> /\ exc.cls = "KeyError" -> "'text'"
      [] OTHER -> exc.args[1]

OmittedRequired ==
    {f \in Fields :
        /\ \E i \in 1..Len(call.env.file.input_schema.schema.required) :
              call.env.file.input_schema.schema.required[i] = f
        /\ call.payload.fields[f] = Absent}

\* the call has a valid contract and an object payload that omits a required member
CallOmitsRequired ==
    /\ CallContractValid
    /\ call.env.file.input_schema.state = "ok"
    /\ call.payload.kind = "object"
    /\ OmittedRequired # {}

\* C10 (as claimed): a payload that omits a required field gives ok = false with
\* type validation_error and details holding an entry whose path names the field.
C10_PathNamesMissingField ==
    CallOmitsRequired =>
        /\ ErrorType("validation_error")
        /\ \A f \in OmittedRequired :
              \E i \in 1..Len(ret.error.details.items) :
                 \E j \in 1..Len(ret.error.details.items[i].path) :
                    ret.error.details.items[i].path[j] = f

\* C10 (amended): for a registered id with a valid contract, a payload that omits a
\* required field gives ok = false with type validation_error, and for each omitted
\* field details holds an entry whose message is "'<field>' is a required property",
\* whose schema_path is [required] and whose path is the path of the object that
\* lacks the field (empty for the payload itself), not the field's name.
C10_MessageNamesMissingField ==
    CallOmitsRequired =>
        /\ ErrorType("validation_error")
        /\ ret.error.message = "schema validation failed"
        /\ \A f \in OmittedRequired :
              \E i \in 1..Len(ret.error.details.items) :
                 /\ ret.error.details.items[i].message = "'" \o f \o "' is a required property"
                 /\ ret.error.details.items[i].path = <<>>
                 /\ ret.error.details.items[i].schema_path = <<"required">>

\* a payload that omits both required members was dispatched
C10_Witness ==
    /\ CallOmitsRequired
    /\ OmittedRequired = {"name", "text"}
    /\ ErrorType("validation_error")
    /\ Len(ret.error.details.items) >= 2

(***************************************************************************)
(* C11. For every registered id, the schemas dispatch validates against    *)
(* are the schemas of CONTRACTS[id], the document the registry discovered  *)
(* and the generators read: whenever dispatch loads the contract of a      *)
(* registered id, what it loads is a document whose input_schema and       *)
(* output_schema are those of CONTRACTS[id].  dispatch reads               *)
(* contracts/<id>.v1.json, the registry capabilities/<dir>/contract.v1.json,*)
(* so the two are different files and nothing keeps them equal.            *)
(***************************************************************************)
\* the schemas of the document dispatch loaded for the call
EnforcedSchemas ==
    [input_schema |-> call.env.file.input_schema,
     output_schema |-> call.env.file.output_schema]

\* the schemas of the document the registry discovered for the call's id
VisibleSchemas ==
    [input_schema |-> CONTRACTS[call.capability_id].input_schema,
     output_schema |-> CONTRACTS[call.capability_id].output_schema]

C11_EnforcedSchemasAreVisibleSchemas ==
    (CallRegistered /\ effects.loaded)
        => /\ call.env.file.state = "doc"
           /\ EnforcedSchemas = VisibleSchemas
(***************************************************************************)
(* Discovery as a step of its own: core/registry.py is imported over some  *)
(* capabilities/ tree and its last statement runs _discover().             *)
(***************************************************************************)
DirSet == {Dirs[i] : i \in 1..Len(Dirs)}

InitDiscovery ==
    /\ plugins \in [DirSet -> UNION {AllPluginStates(d) : d \in DirSet}]
    /\ \A d \in DirSet : plugins[d] \in AllPluginStates(d)
    /\ discovery = "pending"
    /\ REGISTRY = <<>>
    /\ CONTRACTS = <<>>
    /\ resolved = <<>>
    /\ sys_modules = {}
    /\ attempted = {}
    /\ race = NoRace
    /\ gen = NoGen
    /\ RestIdle
    /\ call = NoCall
    /\ outcome = "idle"
    /\ ret = NoEnvelope
    /\ raised = NoExc
    /\ effects = NoTrace

\* REGISTRY, CONTRACTS = _discover(): both names are bound if the call returns,
\* neither if it raises
Discover ==
    /\ discovery = "pending"
    /\ LET found == _discover(plugins)
       IN  /\ discovery' = IF found.exc = NoExc THEN "done" ELSE "raised"
           /\ raised' = found.exc
           /\ REGISTRY' = IF found.exc = NoExc THEN found.registry ELSE <<>>
           /\ CONTRACTS' = IF found.exc = NoExc THEN found.contracts ELSE <<>>
           /\ resolved' = IF found.exc = NoExc
                          THEN [id \in DOMAIN found.registry |-> FALSE] ELSE <<>>
    /\ sys_modules' = PackagesImported(plugins)
    /\ UNCHANGED <<plugins, call, outcome, ret, effects, attempted, race, gen, rest>>

NextDiscovery == Discover

SpecDiscovery == InitDiscovery /\ [][NextDiscovery]_vars

\* the plugin directory has everything the loop asks of it before the entry point
HasContract(child) ==
    /\ child.is_dir
    /\ child.contract_file /\ child.init_file
    /\ child.contract_json = "ok"
    /\ child.name # ""

\* ... but its package does not import, or declares no entry point
NoEntryPoint(child) ==
    /\ HasContract(child)
    /\ \/ ~child.package_imports
       \/ child.ENTRY_POINT_MODULE = ""
       \/ child.ENTRY_POINT_ATTR = ""

(***************************************************************************)
(* C12. After discovery completes the registry map and the contracts map   *)
(* have the same key set, whatever the plugin directories: a plugin is in  *)
(* both maps or in neither, and a contract with no resolvable entry point  *)
(* is in neither.                                                          *)
(***************************************************************************)
C12_SameKeySet ==
    discovery = "done"
        => /\ DOMAIN REGISTRY = DOMAIN CONTRACTS
           /\ \A d \in DirSet :
                NoEntryPoint(plugins[d])
                    => /\ plugins[d].name \notin DOMAIN REGISTRY
                       /\ plugins[d].name \notin DOMAIN CONTRACTS

\* discovery completed over a tree with one registered plugin and one whose
\* contract has no entry point
C12_Witness ==
    /\ discovery = "done"
    /\ \E d \in DirSet : NoEntryPoint(plugins[d])
    /\ \E d \in DirSet : plugins[d].name \in DOMAIN REGISTRY

(***************************************************************************)
(* C13. Discovery never fails globally because of one bad plugin: a plugin *)
(* whose contract document lacks a name, or is malformed, is skipped, and  *)
(* every other valid plugin is still registered.  json.load and            *)
(* contract.get run outside any try, so a malformed document ends          *)
(* _discover with the exception and nothing is registered.                 *)
(***************************************************************************)
C13_BadPluginIsSkipped ==
    discovery # "pending"
        => /\ discovery = "done"
           /\ \A d \in DirSet :
                Registers(plugins[d]) => plugins[d].name \in DOMAIN REGISTRY
\* the implementation modules the plugins declare
ImplementationModules ==
    {plugins[d].ENTRY_POINT_MODULE : d \in DirSet} \ {""}

\* the ids whose plugin declares module m as its implementation
IdsImplementedBy(m) ==
    {plugins[d].name : d \in {x \in DirSet : plugins[x].ENTRY_POINT_MODULE = m}}

ResolvesNow(id) == ~resolved[id] /\ resolved'[id]

\* this step is a dispatch to id
DispatchesNow(id) == outcome = "idle" /\ outcome' # "idle" /\ call'.capability_id = id

\* once resolved an entry point stays resolved, and a dispatch to it imports nothing
MemoizedFrom(id) ==
    resolved[id]
        => /\ resolved'[id]
           /\ DispatchesNow(id) => ~effects'.imported

(***************************************************************************)
(* C15 as stated.  In a sequential series of dispatches to one id a        *)
(* successful resolution happens at most once, on the first dispatch that  *)
(* reaches invocation, and every later dispatch invokes the memoized       *)
(* callable without resolving again.                                       *)
(***************************************************************************)
C15_ResolvedOnFirstInvocation ==
    [][\A id \in DOMAIN resolved :
         /\ MemoizedFrom(id)
         /\ ResolvesNow(id) => id \notin attempted]_vars

(***************************************************************************)
(* C15 amended.  A successful resolution happens at most once, in a        *)
(* dispatch to that id that reached invocation and whose import and symbol *)
(* lookup succeeded (a failed resolution memoizes nothing, so it need not  *)
(* be the first dispatch that reached invocation); every later dispatch to *)
(* the id invokes the memoized callable without resolving again.           *)
(***************************************************************************)
C15_ResolvedAtMostOnce ==
    [][\A id \in DOMAIN resolved :
         /\ MemoizedFrom(id)
         /\ ResolvesNow(id)
                => /\ DispatchesNow(id)
                   /\ effects'.imported /\ effects'.invoked
                   /\ call'.env.import = "ok"]_vars

\* a later dispatch to a resolved id ran the implementation and imported nothing
C15_Witness ==
    /\ CallRegistered
    /\ call.memo
    /\ call.capability_id \in attempted
    /\ effects.invoked /\ ~effects.imported
(***************************************************************************)
(* core/registry.py: _lazy_call of one closure run by several threads.     *)
(* The interpreter switches threads between the statements' reads and      *)
(* writes of _resolved: the test `not _resolved`, the import and getattr,  *)
(* _resolved.append, and the read _resolved[0] are steps of their own.     *)
(***************************************************************************)
Threads == {"t1", "t2", "t3"}

\* dispatches each thread makes
MaxCalls == 2

RaceId == "text.normalize_markdown"

NoCallable == [mod_name |-> "", attr_name |-> "", resolved_by |-> ""]

\* getattr(impl, attr_name) of the resolution thread t ran
Callable(closure, t) ==
    [mod_name |-> closure.mod_name, attr_name |-> closure.attr_name, resolved_by |-> t]

\* `if not _resolved`
NeedsResolve(memo) == memo = <<>>

\* _resolved[-1]: the callable of the last resolution
CalleeLast(memo) == IF memo = <<>> THEN NoCallable ELSE memo[Len(memo)]

\* _resolved[0]; on an empty list the subscript raises IndexError and nothing is called
Callee(memo) == IF memo = <<>> THEN NoCallable ELSE memo[1]

InitRace ==
    /\ plugins = [d \in DirSet |-> ValidPlugin(d)]
    /\ discovery = "done"
    /\ REGISTRY = _discover(plugins).registry
    /\ CONTRACTS = _discover(plugins).contracts
    /\ resolved = [id \in DOMAIN REGISTRY |-> FALSE]
    /\ sys_modules = PackagesImported(plugins)
    /\ attempted = {}
    /\ call = NoCall
    /\ outcome = "idle"
    /\ ret = NoEnvelope
    /\ raised = NoExc
    /\ effects = NoTrace
    /\ race = [threads |-> Threads,
               memo |-> <<>>,
               pc |-> [t \in Threads |-> "idle"],
               impl |-> [t \in Threads |-> NoCallable],
               calls |-> [t \in Threads |-> 0],
               late |-> [t \in Threads |-> FALSE],
               invoked |-> {},
               invoked_late |-> {}]
    /\ gen = NoGen
    /\ RestIdle

RaceFrame ==
    UNCHANGED <<plugins, REGISTRY, CONTRACTS, call, outcome, ret, raised, effects, discovery,
                gen, rest>>

\* dispatch reaches REGISTRY[capability_id](**payload): the thread enters _lazy_call
Enter(t) ==
    /\ race.pc[t] = "idle"
    /\ race.calls[t] < MaxCalls
    /\ race' = [race EXCEPT !.pc[t] = "test", !.calls[t] = @ + 1]
    /\ UNCHANGED <<resolved, sys_modules, attempted>>
    /\ RaceFrame

\* if not _resolved:
Test(t) ==
    /\ race.pc[t] = "test"
    /\ race' = [race EXCEPT !.pc[t] = IF NeedsResolve(race.memo) THEN "resolve" ELSE "call",
                            !.late[t] = ~NeedsResolve(race.memo)]
    /\ UNCHANGED <<resolved, sys_modules, attempted>>
    /\ RaceFrame

\* impl = importlib.import_module(mod_name); getattr(impl, attr_name): under the
\* import lock the module is initialised in full before any thread gets it, or the
\* import raises and the call ends
Resolve(t) ==
    /\ race.pc[t] = "resolve"
    /\ attempted' = attempted \cup {RaceId}
    /\ \/ /\ race' = [race EXCEPT !.pc[t] = "append",
                                  !.impl[t] = Callable(REGISTRY[RaceId], t)]
          /\ sys_modules' = sys_modules \cup {ModuleOf(RaceId)}
       \/ /\ ModuleOf(RaceId) \notin sys_modules
          /\ race' = [race EXCEPT !.pc[t] = "idle"]
          /\ UNCHANGED sys_modules
    /\ UNCHANGED resolved
    /\ RaceFrame

\* _resolved.append(...)
AppendResolved(t) ==
    /\ race.pc[t] = "append"
    /\ race' = [race EXCEPT !.pc[t] = "call", !.memo = Append(@, race.impl[t])]
    /\ resolved' = [resolved EXCEPT ![RaceId] = TRUE]
    /\ UNCHANGED <<sys_modules, attempted>>
    /\ RaceFrame

\* return _resolved[0](**kwargs)
CallResolved(t) ==
    /\ race.pc[t] = "call"
    /\ race' = [race EXCEPT !.pc[t] = "idle",
                            !.invoked = @ \cup {Callee(race.memo)},
                            !.invoked_late = IF race.late[t]
                                             THEN @ \cup {Callee(race.memo)} ELSE @]
    /\ UNCHANGED <<resolved, sys_modules, attempted>>
    /\ RaceFrame

NextRace ==
    \E t \in Threads :
        Enter(t) \/ Test(t) \/ Resolve(t) \/ AppendResolved(t) \/ CallResolved(t)

SpecRace == InitRace /\ [][NextRace]_vars

RaceStateSound ==
    /\ NoCallable \notin race.invoked
    /\ Cardinality(race.invoked_late) <= 1
    /\ \A i \in 1..Len(race.memo) :
         /\ race.memo[i] # NoCallable
         /\ race.memo[i].mod_name = REGISTRY[RaceId].mod_name
         /\ race.memo[i].attr_name = REGISTRY[RaceId].attr_name

(***************************************************************************)
(* C16. When several dispatches to the same unresolved id run              *)
(* concurrently, each one that invokes, invokes a resolved implementation: *)
(* never an empty _resolved; the list only grows and its first entry never *)
(* changes; the implementation may be resolved more than once, but every   *)
(* dispatch that found the entry point resolved uses one and the same      *)
(* callable, the first entry.                                              *)
(***************************************************************************)
C16_RaceIsIdempotent ==
    /\ []RaceStateSound
    /\ [][/\ Len(race'.memo) >= Len(race.memo)
          /\ race.memo # <<>> => Callee(race'.memo) = Callee(race.memo)]_vars

\* two threads both resolved, and a later dispatch has used the memoized callable
C16_Witness ==
    /\ Len(race.memo) >= 2
    /\ race.invoked_late # {}
    /\ Cardinality(race.invoked) = 1
\* the last call tried to resolve its entry point and failed
ResolutionFailed == CallRegistered /\ effects.imported /\ ~effects.invoked

\* some other registered capability has failed to resolve and is still unresolved
OtherFailedBefore ==
    \E a \in DOMAIN REGISTRY :
        /\ a # call.capability_id
        /\ a \in attempted
        /\ ~resolved[a]

\* everything the call to B itself needs is in order: a contract, a conforming
\* mapping as payload, an implementation that imports and returns a conforming value
CallIsHealthy ==
    /\ CallPayloadConforms
    /\ call.payload.kind = "object"
    /\ call.env.import = "ok"
    /\ call.env.behaviour.exc = NoExc
    /\ ConformsToOutput(call.env.behaviour.value)

FailureAnswered ==
    ResolutionFailed
           => /\ outcome = "returned"
              /\ ret.ok = FALSE
              /\ ret.error.type = "capability_error"
              /\ ret.error.message = IF call.env.import = "import_error"
                                     THEN "No module named 'docker'"
                                     ELSE "module has no attribute"
              /\ "result" \notin DOMAIN ret

HealthyAfterFailure ==
    (CallIsHealthy /\ OtherFailedBefore)
           => /\ outcome = "returned"
              /\ ret = OkEnvelope(call.env.behaviour.value)
              /\ resolved[call.capability_id]

MapsAsDiscovered ==
    /\ REGISTRY = _discover(plugins).registry
    /\ CONTRACTS = _discover(plugins).contracts

(***************************************************************************)
(* C18. No dispatch call, successful or failing, adds, removes or rebinds  *)
(* an entry of the registry map or of the contracts map: every step leaves *)
(* both maps as they were, so after any sequence of dispatches they are    *)
(* the maps discovery built.                                               *)
(***************************************************************************)
C18_MapsAreReadOnly ==
    /\ []MapsAsDiscovered
    /\ [][REGISTRY' = REGISTRY /\ CONTRACTS' = CONTRACTS]_vars

\* dispatches have succeeded for one capability and failed to resolve another, and
\* the maps are still the ones discovery built
C18_Witness ==
    /\ CallRegistered
    /\ resolved[call.capability_id]
    /\ OtherFailedBefore
    /\ MapsAsDiscovered
(***************************************************************************)
(* Contract documents as the generators read them: JSON values whose       *)
(* objects keep the key order of the file.  A string is the sequence of    *)
(* its parts, cut at '.', '_' and '-', so that partition and replace can   *)
(* be computed on it.                                                      *)
(***************************************************************************)
JStr(parts) == [k |-> "str", parts |-> parts]

JList(items) == [k |-> "list", items |-> items]

JObj(members) == [k |-> "obj", members |-> members]

Member(key, value) == [key |-> key, value |-> value]

\* ''.join(parts)
RECURSIVE Join(_)
Join(parts) == IF parts = <<>> THEN "" ELSE Head(parts) \o Join(Tail(parts))

\* the keys of an object, in document order
Keys(obj) == [i \in 1..Len(obj.members) |-> obj.members[i].key]

\* obj.get(key, default)
Get(obj, key, default) ==
    IF \E i \in 1..Len(obj.members) : obj.members[i].key = key
    THEN obj.members[CHOOSE i \in 1..Len(obj.members) : obj.members[i].key = key].value
    ELSE default

\* the order sort_keys=True and sorted() give to the strings that occur
SortedStrings ==
    <<"$schema", "claude.survey_sessions", "description", "function", "input_schema",
      "name", "normalize-markdown", "parameters", "properties", "required", "session-survey",
      "session.survey_sessions", "survey-sessions", "text", "text.normalize_markdown",
      "type">>

StringRank(str) == CHOOSE i \in 1..Len(SortedStrings) : SortedStrings[i] = str

\* the members of an object sorted by key
RECURSIVE SortMembersFrom(_, _)
SortMembersFrom(members, rank) ==
    IF rank > Len(SortedStrings) THEN <<>>
    ELSE SelectSeq(members, LAMBDA m : m.key = SortedStrings[rank])
             \o SortMembersFrom(members, rank + 1)

SortMembers(members) == SortMembersFrom(members, 1)

\* json.dump(value, indent=2, sort_keys=True): the text, token by token
RECURSIVE Dump(_)
RECURSIVE DumpAll(_, _)
DumpAll(values, keys) ==
    IF values = <<>> THEN <<>>
    ELSE (IF keys = <<>> THEN <<>> ELSE <<"\"" \o Head(keys) \o "\": ">>)
             \o Dump(Head(values))
             \o (IF Len(values) > 1 THEN <<",">> ELSE <<>>)
             \o DumpAll(Tail(values), IF keys = <<>> THEN <<>> ELSE Tail(keys))

Dump(value) ==
    IF value.k = "str" THEN <<"\"" \o Join(value.parts) \o "\"">>
    ELSE IF value.k = "list"
    THEN <<"[">> \o DumpAll(value.items, <<>>) \o <<"]">>
    ELSE LET sorted == SortMembers(value.members)
         IN  <<"{">>
                 \o DumpAll([i \in 1..Len(sorted) |-> sorted[i].value],
                            [i \in 1..Len(sorted) |-> sorted[i].key])
                 \o <<"}">>
(***************************************************************************)
(* The contract documents of the generators' runs.                         *)
(***************************************************************************)
\* capability ids, cut into parts
GenIds ==
    {<<"claude", ".", "survey", "_", "sessions">>,
     <<"session", ".", "survey", "_", "sessions">>,
     <<"text", ".", "normalize", "_", "markdown">>}

\* sorted(CONTRACTS.items()): the ids in the order of their strings
RECURSIVE SortIdsFrom(_, _)
SortIdsFrom(ids, rank) ==
    IF rank > Len(SortedStrings) THEN <<>>
    ELSE (IF \E id \in ids : Join(id) = SortedStrings[rank]
          THEN <<CHOOSE id \in ids : Join(id) = SortedStrings[rank]>> ELSE <<>>)
             \o SortIdsFrom(ids, rank + 1)

SortedIds(ids) == SortIdsFrom(ids, 1)

\* the two orders in which a contract file may list the same two properties
PropertyOrders == {<<"name", "text">>, <<"text", "name">>}

PropertySpec(type) == JObj(<<Member("type", JStr(<<type>>))>>)

\* the input schema of a contract: an object with two required string properties,
\* its keys and its properties written in the order given
SchemaDocument(order) ==
    LET properties == Member("properties",
                             JObj(<<Member(order[1], PropertySpec("string")),
                                    Member(order[2], PropertySpec("string"))>>))
        required == Member("required", JList(<<JStr(<<"name">>), JStr(<<"text">>)>>))
        type == Member("type", JStr(<<"object">>))
        dialect == Member("$schema", JStr(<<"https://json-schema.org/draft/2020-12/schema">>))
    IN  IF order[1] = "name"
        THEN JObj(<<dialect, type, properties, required>>)
        ELSE JObj(<<required, properties, type, dialect>>)

\* contract.v1.json of one capability, written in one key order
ContractDocument(id, order) ==
    LET name == Member("name", JStr(id))
        description == Member("description", JStr(<<"Does ", Join(id)>>))
        input_schema == Member("input_schema", SchemaDocument(order))
    IN  IF order[1] = "name"
        THEN JObj(<<name, description, input_schema>>)
        ELSE JObj(<<input_schema, description, name>>)

(***************************************************************************)
(* adapters/openai/toolgen.py                                              *)
(***************************************************************************)
\* cleaned = dict(schema); cleaned.pop("$schema", None)
_strip_schema(schema) ==
    JObj(SelectSeq(schema.members, LAMBDA m : m.key # "$schema"))

generate_tool(contract) ==
    JObj(<<Member("type", JStr(<<"function">>)),
           Member("function",
                  JObj(<<Member("name", Get(contract, "name", JStr(<<>>))),
                         Member("description", Get(contract, "description", JStr(<<>>))),
                         Member("parameters",
                                _strip_schema(Get(contract, "input_schema", JObj(<<>>))))>>))>>)

\* write_tool: the text of openai.json
ToolText(contract) == Dump(generate_tool(contract)) \o <<"\n">>
(***************************************************************************)
(* adapters/claude/skillgen.py: the text of a SKILL.md.  A line is the     *)
(* sequence of its parts, a document the sequence of its lines.            *)
(***************************************************************************)
\* the backquote, which a string of this language cannot hold, written as a quote
Tick == "'"

\* the position of the first '.', 0 if there is none
FirstDot(parts) ==
    IF \E i \in 1..Len(parts) : parts[i] = "."
    THEN CHOOSE i \in 1..Len(parts) :
            parts[i] = "." /\ \A j \in 1..(i - 1) : parts[j] # "."
    ELSE 0

\* str.replace(old, new) for a one-character old
Replace(parts, old, new) ==
    [i \in 1..Len(parts) |-> IF parts[i] = old THEN new ELSE parts[i]]

\* _, _, action = capability_id.partition("."); action or the whole id; '_' -> '-'
_slug_from_id(capability_id) ==
    LET dot == FirstDot(capability_id)
        action == IF dot = 0 THEN <<>> ELSE SubSeq(capability_id, dot + 1, Len(capability_id))
    IN  Replace(IF action = <<>> THEN capability_id ELSE action, "_", "-")

\* str.title() on one word
Capitalized(word) ==
    CASE word = "survey" -> "Survey"
      [] word = "sessions" -> "Sessions"
      [] word = "normalize" -> "Normalize"
      [] word = "markdown" -> "Markdown"
      [] word = "claude" -> "Claude"
      [] word = "session" -> "Session"
      [] word = "text" -> "Text"
      [] OTHER -> word

\* slug.replace("-", " ").title()
Title(slug) ==
    LET spaced == Replace(slug, "-", " ")
    IN  [i \in 1..Len(spaced) |-> Capitalized(spaced[i])]

\* the names in schema["required"]
RequiredNames(schema) ==
    LET required == Get(schema, "required", JList(<<>>))
    IN  {Join(required.items[i].parts) : i \in 1..Len(required.items)}

\* ', '.join(parts)
RECURSIVE CommaJoin(_)
CommaJoin(parts) ==
    IF parts = <<>> THEN <<>>
    ELSE IF Len(parts) = 1 THEN <<Head(parts)>>
    ELSE <<Head(parts), ", ">> \o CommaJoin(Tail(parts))

\* the placeholder _example_call writes for a required property of this type
Placeholder(name, ptype) ==
    CASE ptype = "string" -> name \o "=\"...\""
      [] ptype = "boolean" -> name \o "=true"
      [] ptype \in {"integer", "number"} -> name \o "=0"
      [] ptype = "array" -> name \o "=[\"...\"]"
      [] OTHER -> name \o "=..."

\* _example_call: the required properties, in the order props.items() yields them
_example_call(capability_id, schema) ==
    LET props == Get(schema, "properties", JObj(<<>>)).members
        required == SelectSeq(props, LAMBDA m : m.key \in RequiredNames(schema))
        parts == [i \in 1..Len(required) |->
                    Placeholder(required[i].key,
                                Join(Get(required[i].value, "type", JStr(<<"string">>)).parts))]
    IN  capability_id \o <<"(">> \o CommaJoin(parts) \o <<")">>

\* _param_table: one row for each property, in the order props.items() yields them
\* the default of a property without one is written as a dash
_param_table(schema) ==
    LET props == Get(schema, "properties", JObj(<<>>)).members
        row(m) == <<"| ", Tick, m.key, Tick, " | ",
                    Join(Get(m.value, "type", JStr(<<"any">>)).parts), " | ",
                    IF m.key \in RequiredNames(schema) THEN "yes" ELSE "no",
                    " | -- | ",
                    Join(Get(m.value, "description", JStr(<<>>)).parts), " |">>
    IN  IF props = <<>> THEN << <<"_No parameters._">> >>
        ELSE << <<"| Parameter | Type | Required | Default | Description |">>,
                <<"|-----------|------|----------|---------|-------------|">> >>
                 \o [i \in 1..Len(props) |-> row(props[i])]

\* generate_skill(contract) for a contract without errors and side_effects
generate_skill(contract) ==
    LET cap_id == Get(contract, "name", JStr(<<>>)).parts
        desc == Get(contract, "description", JStr(<<>>)).parts
        slug == _slug_from_id(cap_id)
        input_schema == Get(contract, "input_schema", JObj(<<>>))
    IN  << <<"---">>,
           <<"name: ">> \o slug,
           <<"description: ">> \o desc,
           <<"---">>,
           <<>>,
           <<"# ">> \o Title(slug),
           <<>>,
           desc,
           <<>>,
           <<"## Invocation">>,
           <<>>,
           <<"Call the ", Tick>> \o cap_id \o <<Tick, " capability", " via MCP", ":">>,
           <<>>,
           <<Tick, Tick, Tick>>,
           _example_call(cap_id, input_schema),
           <<Tick, Tick, Tick>>,
           <<>>,
           <<"## Parameters">>,
           <<>> >>
            \o _param_table(input_schema)
            \o << <<>> >>
\* the directories the skills directory may hold, as sorted(skills_dir.iterdir()) lists them
SkillDirs == <<"normalize-markdown", "session-survey", "survey-sessions">>

\* <dir>/SKILL.md: whether it is a file, and its text
SkillFile(exists, content) == [exists |-> exists, content |-> content]

NoSkillFile == SkillFile(FALSE, <<>>)

\* a hand-written skill, session-survey/SKILL.md, which wraps session.survey_sessions
HandWrittenSkill ==
    SkillFile(TRUE,
              << <<"# Session survey">>,
                 <<"Wraps the ", Tick, "session", ".", "survey", "_", "sessions", Tick,
                   " capability", ".">> >>)

\* `marker in text` for a marker without a newline: it occurs inside one line
Contains(content, marker) ==
    \E l \in 1..Len(content) :
        \E o \in 1..Len(content[l]) :
            /\ o + Len(marker) - 1 <= Len(content[l])
            /\ SubSeq(content[l], o, o + Len(marker) - 1) = marker

\* the three patterns that say a skill is about this capability
Markers(capability_id) ==
    {<<Tick>> \o capability_id \o <<Tick, " capability">>,
     <<"Call the ", Tick>> \o capability_id \o <<Tick>>,
     <<Tick>> \o capability_id \o <<Tick, " via MCP">>}

\* this SKILL.md is a file whose text has one of the id's markers
Mentions(file, capability_id) ==
    file.exists /\ \E m \in Markers(capability_id) : Contains(file.content, m)

NoSkill == ""

\* _existing_skill_covers: the first directory, in sorted order, whose SKILL.md has a marker
_existing_skill_covers(capability_id, skills) ==
    IF \E i \in 1..Len(SkillDirs) : Mentions(skills[SkillDirs[i]], capability_id)
    THEN SkillDirs[CHOOSE i \in 1..Len(SkillDirs) :
            /\ Mentions(skills[SkillDirs[i]], capability_id)
            /\ \A j \in 1..(i - 1) : ~Mentions(skills[SkillDirs[j]], capability_id)]
    ELSE NoSkill

\* the command line of one skillgen run; capability is <<>> without --capability
Args(force, dry_run, capability) ==
    [force |-> force, dry_run |-> dry_run, capability |-> capability]

\* what main has done so far: the skills directory, and the ids it generated and skipped
Progress(skills, generated, skipped) ==
    [skills |-> skills, generated |-> generated, skipped |-> skipped]

\* the body of main's loop for one capability
GenerateFor(cap_id, args, docs, acc) ==
    LET slug == Join(_slug_from_id(cap_id))
        covered_by == _existing_skill_covers(cap_id, acc.skills)
        content == generate_skill(ContractDocument(cap_id, docs[cap_id]))
    IN  IF args.capability # <<>> /\ cap_id # args.capability
        THEN acc
        ELSE IF acc.skills[slug].exists /\ ~args.force
        THEN Progress(acc.skills, acc.generated, acc.skipped \cup {cap_id})
        ELSE IF covered_by # NoSkill /\ ~args.force
        THEN Progress(acc.skills, acc.generated, acc.skipped \cup {cap_id})
        ELSE IF args.dry_run
        THEN Progress(acc.skills, acc.generated \cup {cap_id}, acc.skipped)
        ELSE Progress([acc.skills EXCEPT ![slug] = SkillFile(TRUE, content)],
                      acc.generated \cup {cap_id}, acc.skipped)

\* for cap_id, contract in sorted(CONTRACTS.items())
RECURSIVE MainFrom(_, _, _, _, _)
MainFrom(ids, i, args, docs, acc) ==
    IF i > Len(ids) THEN acc
    ELSE MainFrom(ids, i + 1, args, docs, GenerateFor(ids[i], args, docs, acc))

SkillgenMain(args, docs, skills) ==
    MainFrom(SortedIds(GenIds), 1, args, docs, Progress(skills, {}, {}))
(***************************************************************************)
(* The generators as processes over the files: a run of skillgen or of     *)
(* toolgen reads the contract documents and writes its files; between runs *)
(* a contract file may be rewritten in another key order.                  *)
(***************************************************************************)
NoRun == [kind |-> "none"]

\* openai.json of a capability: whether it is there, and its text
ToolFile(exists, content) == [exists |-> exists, content |-> content]

InitGen ==
    /\ plugins = [d \in DirSet |-> ValidPlugin(d)]
    /\ discovery = "done"
    /\ REGISTRY = _discover(plugins).registry
    /\ CONTRACTS = _discover(plugins).contracts
    /\ resolved = [id \in DOMAIN REGISTRY |-> FALSE]
    /\ sys_modules = PackagesImported(plugins)
    /\ attempted = {}
    /\ call = NoCall
    /\ outcome = "idle"
    /\ ret = NoEnvelope
    /\ raised = NoExc
    /\ effects = NoTrace
    /\ race = NoRace
    /\ RestIdle
    /\ \E order \in PropertyOrders, hand_written \in {NoSkillFile, HandWrittenSkill} :
         gen = [docs |-> [id \in GenIds |-> order],
                skills |-> [d \in {SkillDirs[i] : i \in 1..Len(SkillDirs)} |->
                               IF d = "session-survey" THEN hand_written ELSE NoSkillFile],
                tools |-> [id \in GenIds |-> ToolFile(FALSE, <<>>)],
                run |-> NoRun]

GenFrame ==
    UNCHANGED <<plugins, REGISTRY, CONTRACTS, resolved, call, outcome, ret, raised, effects,
                discovery, sys_modules, attempted, race, rest>>

\* python -m adapters.claude.skillgen [--force] [--dry-run] [--capability ID]
RunSkillgen ==
    /\ gen.run = NoRun
    /\ \E force \in BOOLEAN, dry_run \in BOOLEAN, capability \in GenIds \cup {<<>>} :
         LET args == Args(force, dry_run, capability)
             done == SkillgenMain(args, gen.docs, gen.skills)
         IN  gen' = [gen EXCEPT !.skills = done.skills,
                                !.run = [kind |-> "skillgen", args |-> args,
                                         skills_before |-> gen.skills,
                                         generated |-> done.generated,
                                         skipped |-> done.skipped]]
    /\ GenFrame

\* python -m adapters.openai.toolgen: one openai.json for each contract
RunToolgen ==
    /\ gen.run = NoRun
    /\ gen' = [gen EXCEPT !.tools = [id \in GenIds |->
                                        ToolFile(TRUE, ToolText(ContractDocument(id, gen.docs[id])))],
                          !.run = [kind |-> "toolgen", tools_before |-> gen.tools]]
    /\ GenFrame

\* someone rewrites a contract file with its keys in the other order
RewriteContract ==
    /\ gen.run = NoRun
    /\ \E id \in GenIds, order \in PropertyOrders :
         /\ order # gen.docs[id]
         /\ gen' = [gen EXCEPT !.docs[id] = order]
    /\ GenFrame

\* the generator's process has exited
Finish ==
    /\ gen.run # NoRun
    /\ gen' = [gen EXCEPT !.run = NoRun]
    /\ GenFrame

NextGen == RunSkillgen \/ RunToolgen \/ RewriteContract \/ Finish

SpecGen == InitGen /\ [][NextGen]_vars
\* what generate_skill gives for the id's contract file as it is now
SkillTextNow(id) == generate_skill(ContractDocument(id, gen.docs[id]))

\* the path <slug>/SKILL.md of the id
SlugOf(id) == Join(_slug_from_id(id))

(***************************************************************************)
(* C19. Generation is idempotent: for the same contract, generating the    *)
(* tool descriptor or the skill stub again gives byte-identical output,    *)
(* whatever was generated in between and whatever the key order of the     *)
(* contract document: a toolgen run leaves every openai.json it finds with *)
(* the text it had, and what a skillgen run generates for an id is the     *)
(* text of the stub generated for that id before.  The parameter table and *)
(* the example call follow the document's order of properties, so the      *)
(* stub changes when the contract file is rewritten in another key order.  *)
(***************************************************************************)
C19_RegenerationIsByteIdentical ==
    /\ gen.run.kind = "toolgen"
           => \A id \in GenIds :
                gen.run.tools_before[id].exists
                    => gen.tools[id].content = gen.run.tools_before[id].content
    /\ gen.run.kind = "skillgen"
           => \A id \in gen.run.generated :
                Mentions(gen.run.skills_before[SlugOf(id)], id)
                    => SkillTextNow(id) = gen.run.skills_before[SlugOf(id)].content

\* the run was asked to generate for this id
InScope(id) == gen.run.args.capability \in {<<>>, id}

\* before the run some SKILL.md, at the id's slug or elsewhere, had a marker of the id
DocumentedBefore(id) == _existing_skill_covers(id, gen.run.skills_before) # NoSkill

(***************************************************************************)
(* C20. A skill-stub run that writes (no --dry-run), for each id it is     *)
(* asked for: with no document for the id before the run, the id's stub is *)
(* at its slug after it; with a document for the id before the run (at its *)
(* slug, or elsewhere by the marker scan) and no --force, nothing is       *)
(* generated for the id and the documents of the id are as they were; with *)
(* --force the id's stub is at its slug after the run.  The existence test *)
(* is on the path <slug>/SKILL.md, whichever id that file documents, and   *)
(* the slug drops the domain prefix, so another id's stub at the same slug *)
(* suppresses or replaces this id's.                                       *)
(***************************************************************************)
C20_CreateSkipOverwrite ==
    (gen.run.kind = "skillgen" /\ ~gen.run.args.dry_run)
        => \A id \in {x \in GenIds : InScope(x)} :
             /\ ~DocumentedBefore(id)
                    => gen.skills[SlugOf(id)] = SkillFile(TRUE, SkillTextNow(id))
             /\ (DocumentedBefore(id) /\ ~gen.run.args.force)
                    => /\ id \notin gen.run.generated
                       /\ \A d \in DOMAIN gen.skills :
                            Mentions(gen.run.skills_before[d], id)
                                => gen.skills[d] = gen.run.skills_before[d]
             /\ gen.run.args.force
                    => gen.skills[SlugOf(id)] = SkillFile(TRUE, SkillTextNow(id))

(***************************************************************************)
(* core/dispatch.py: the command line, one process for each run.           *)
(***************************************************************************)
others_cli == <<mcp, norm, infra, pager>>

\* the value of --input-json or --input-file: not given, the empty string, a text or
\* file that is no JSON, or the JSON text of a payload
Option(given, payload) == [given |-> given, payload |-> payload]

NoOption == Option("absent", Scalar("null"))

Options ==
    {NoOption, Option("empty", Scalar("null")), Option("malformed", Scalar("null"))}
        \cup {Option("json", p) : p \in Payloads}

\* `if args.input_json`: None and '' are false
Given(option) == option.given \notin {"absent", "empty"}

\* json.loads / json.load of the option's text
Parsed(option) ==
    IF option.given = "json" THEN Returns(option.payload)
    ELSE Raises(PyError("JSONDecodeError", <<"Expecting value: line 1 column 1 (char 0)">>))

_load_payload(input_json, input_file) ==
    IF Given(input_json) /\ Given(input_file)
    THEN Raises(PyError("SystemExit", <<"provide only one of --input-json or --input-file">>))
    ELSE IF Given(input_json) THEN Parsed(input_json)
    ELSE IF Given(input_file) THEN Parsed(input_file)
    ELSE Raises(PyError("SystemExit", <<"missing input payload (--input-json or --input-file)">>))

\* the status main returns, when it returns 0 whatever the envelope
ExitStatusZero(response) == 0

\* return 0 if response.get("ok") else 1
ExitStatus(response) == IF response.ok THEN 0 ELSE 1

\* the exit code of a process that ends with this exception: SystemExit without an
\* argument is 0, SystemExit with a text writes it to stderr and is 1, and so is a
\* traceback
ExitCodeOf(exc) == IF exc.cls = "SystemExit" /\ exc.args = <<>> THEN 0 ELSE 1

\* how the process ended: what it wrote to stdout, and its exit code
Exited(stdout, exit_code, exc) == [stdout |-> stdout, exit_code |-> exit_code, exc |-> exc]

\* main(), then raise SystemExit(main())
main(capability, input_json, input_file, env) ==
    LET payload == _load_payload(input_json, input_file)
        done == dispatch(capability, payload.value, env, FALSE)
    IN  IF payload.exc # NoExc
        THEN Exited(<<>>, ExitCodeOf(payload.exc), payload.exc)
        ELSE IF done.outcome = "raised"
        THEN Exited(<<>>, ExitCodeOf(done.raised), done.raised)
        ELSE Exited(<<done.ret>>, ExitStatus(done.ret), NoExc)

\* the command is run in a tree where every plugin is valid
RunCli ==
    /\ ~cli.ran
    /\ \E capability \in Ids, input_json \in Options, input_file \in Options :
         \E env \in EnvironmentsOf(capability) :
            \* with --input-file given, --input-json is absent or one JSON text
            /\ Given(input_file) => input_json \in {NoOption, Option("json", Scalar("number"))}
            /\ cli' = [ran |-> TRUE, capability |-> capability,
                       input_json |-> input_json, input_file |-> input_file, env |-> env,
                       response |-> IF _load_payload(input_json, input_file).exc = NoExc
                                    THEN dispatch(capability,
                                                  _load_payload(input_json, input_file).value,
                                                  env, FALSE)
                                    ELSE [outcome |-> "not called"],
                       exit |-> main(capability, input_json, input_file, env)]
    /\ UNCHANGED core
    /\ UNCHANGED others_cli

NextCli == RunCli

InitCli ==
    /\ Init
    /\ \A d \in DirSet : plugins[d] = ValidPlugin(d)

SpecCli == InitCli /\ [][NextCli]_vars

\* the run was given a capability id and one payload: exactly one of the two options,
\* holding JSON
GivenIdAndPayload ==
    /\ cli.ran
    /\ Given(cli.input_json) # Given(cli.input_file)
    /\ _load_payload(cli.input_json, cli.input_file).exc = NoExc

others_mcp == <<cli, norm, infra, pager>>

MetaTool == "toolbox.list_capabilities"

\* the schema {}
EmptySchema ==
    [type |-> "any", props |-> [f \in Fields |-> Absent], required |-> <<>>,
     additional |-> TRUE]

\* CONTRACTS_DIR/<id>.v1.json: the file, the "name" of its document ("" when the
\* document has none) and whether its input_schema declares a "$schema"
Stored(file, name, dialect) == [file |-> file, name |-> name, dialect |-> dialect]

NotStored == Stored(MissingFile, "", FALSE)

\* the contract documents a checkout keeps for the two capabilities
ShippedFile(id) ==
    ContractFile("doc",
                 Slot("ok", IF id = "infra.spawn_instance" THEN PairSchema ELSE TextSchema),
                 Slot("ok", TextSchema))

\* the directory: infra.spawn_instance as shipped, any file for
\* text.normalize_markdown, and possibly a document of an id nothing implements
Stores ==
    {[id \in Ids |->
        CASE id = "infra.spawn_instance" -> Stored(ShippedFile(id), id, TRUE)
          [] id = "text.normalize_markdown" -> s
          [] OTHER -> o] :
     s \in {NotStored} \cup {Stored(f, n, d) : f \in ContractFiles \ {MissingFile},
                                                n \in {"", "text.normalize_markdown"},
                                                d \in BOOLEAN},
     o \in {NotStored, Stored(ShippedFile("nonexistent.id"), "nonexistent.id", TRUE)}}

\* the files of the directory, as sorted(CONTRACTS_DIR.glob("*.v1.json")) yields them
Globbed(store) == {id \in DOMAIN store : store[id].file.state # "missing"}

\* _load_contracts(): json.load of every file, keyed by the document's name
_load_contracts(store) ==
    IF \E id \in Globbed(store) : store[id].file.state = "malformed"
    THEN Raises(PyError("JSONDecodeError", <<"Expecting value: line 1 column 1 (char 0)">>))
    ELSE IF \E id \in Globbed(store) : store[id].file.state = "nondict"
    THEN Raises(PyError("AttributeError", <<"'list' object has no attribute 'get'">>))
    ELSE Returns([name \in {store[id].name : id \in Globbed(store)} \ {""} |->
                    LET s == CHOOSE s \in {store[id] : id \in Globbed(store)} : s.name = name
                    IN  [state |-> s.file.state, input_schema |-> s.file.input_schema,
                         output_schema |-> s.file.output_schema, dialect |-> s.dialect]])

\* contract.get("input_schema", {})
InputSchemaOrEmpty(contract) ==
    IF contract.input_schema.state = "missing" THEN Slot("ok", EmptySchema)
    ELSE IF contract.input_schema.state = "empty" THEN Slot("ok", EmptySchema)
    ELSE contract.input_schema

\* the server's own _validate(schema, payload): the list of violations
mcp_validate(slot, payload) ==
    IF slot.state = "invalid"
    THEN Raises(PyError("SchemaError", <<"'objekt' is not valid under any of the given schemas">>))
    ELSE LET errors == SortedByPath(iter_errors(slot.schema, payload))
         IN  Returns([i \in 1..Len(errors) |-> _format_validation_error(errors[i])])

\* the ids of Ids in str order
IdOrder == <<"infra.spawn_instance", "nonexistent.id", "text.normalize_markdown">>

\* sorted(contracts.keys())
SortedKeys(contracts) == SelectSeq(IdOrder, LAMBDA id : id \in DOMAIN contracts)

\* call_tool(name, arguments)
call_tool(name, arguments, contracts, env) ==
    IF name = MetaTool
    THEN [outcome |-> "returned", ret |-> [ok |-> TRUE, result |-> SortedKeys(contracts)],
          raised |-> NoExc]
    ELSE IF name \notin DOMAIN contracts
    THEN [outcome |-> "returned", ret |-> NotFoundEnvelope(name), raised |-> NoExc]
    ELSE LET errors == mcp_validate(InputSchemaOrEmpty(contracts[name]), arguments)
             done == dispatch(name, arguments, env, FALSE)
         IN  IF errors.exc # NoExc
             THEN [outcome |-> "raised", ret |-> NoEnvelope, raised |-> errors.exc]
             ELSE IF errors.value # <<>>
             THEN [outcome |-> "returned",
                   ret |-> [ok |-> FALSE,
                            error |-> [type |-> "validation_error",
                                       message |-> "schema validation failed",
                                       details |-> Details(errors.value)]],
                   raised |-> NoExc]
             ELSE [outcome |-> done.outcome, ret |-> done.ret, raised |-> done.raised]

ToolNames == Ids \cup {MetaTool}

\* what dispatch reads when the server calls it for this name: the file of the
\* directory, which has not changed since the server read it
McpEnvironments(name, store) ==
    IF name \in Ids
    THEN {e \in EnvironmentsOf(name) :
            name \in DOMAIN REGISTRY => e.file = store[name].file}
    ELSE {NoEnvironment}

JBool(value) == [k |-> "bool", value |-> value]

\* the JSON text of a schema: the keywords in the order the contracts write them
SchemaJson(slot, dialect) ==
    LET declared == SelectSeq(FieldOrder, LAMBDA f : slot.schema.props[f] # Absent)
        head == IF dialect
                THEN <<Member("$schema",
                              JStr(<<"https://json-schema.org/draft/2020-12/schema">>))>>
                ELSE <<>>
        type == IF slot.schema.type = "object"
                THEN <<Member("type", JStr(<<"object">>))>> ELSE <<>>
        properties == Member("properties",
                             JObj([i \in 1..Len(declared) |->
                                      Member(declared[i],
                                             PropertySpec(slot.schema.props[declared[i]]))]))
        required == Member("required",
                           JList([i \in 1..Len(slot.schema.required) |->
                                     JStr(<<slot.schema.required[i]>>)]))
        additional == Member("additionalProperties", JBool(slot.schema.additional))
    IN  IF slot.state \in {"missing", "empty"} THEN JObj(<<>>)
        ELSE IF slot.state = "invalid"
        THEN JObj(head \o <<Member("type", JStr(<<"objekt">>))>>)
        ELSE JObj(head \o type \o <<properties, required, additional>>)

\* contract.get("input_schema", {}), as the document holds it
InputSchemaJson(contract) == SchemaJson(contract.input_schema, contract.dialect)

Tool(name, inputSchema) == [name |-> name, inputSchema |-> inputSchema]

\* list_tools(): one tool per loaded contract, in the order they were loaded, then
\* the meta-tool
list_tools(contracts) ==
    [i \in 1..Len(SortedKeys(contracts)) |->
        Tool(SortedKeys(contracts)[i],
             _strip_schema(InputSchemaJson(contracts[SortedKeys(contracts)[i]])))]
        \o <<Tool(MetaTool,
                  JObj(<<Member("type", JStr(<<"object">>)),
                         Member("properties", JObj(<<>>)),
                         Member("additionalProperties", JBool(FALSE))>>))>>

\* import adapters.mcp.server: contracts = _load_contracts()
LoadServer ==
    /\ mcp.state = "unloaded"
    /\ \E store \in Stores :
         LET loaded == _load_contracts(store)
         IN  mcp' = IF loaded.exc # NoExc
                    THEN [state |-> "failed", called |-> FALSE, store |-> store,
                          exc |-> loaded.exc]
                    ELSE [state |-> "serving", called |-> FALSE, store |-> store,
                          contracts |-> loaded.value]
    /\ UNCHANGED core
    /\ UNCHANGED others_mcp

\* the protocol layer hands one tools/list request to list_tools
ListTools ==
    /\ mcp.state = "serving"
    /\ ~mcp.called
    /\ "tools" \notin DOMAIN mcp
    /\ mcp' = [state |-> "serving", called |-> FALSE, store |-> mcp.store,
               contracts |-> mcp.contracts, tools |-> list_tools(mcp.contracts)]
    /\ UNCHANGED core
    /\ UNCHANGED others_mcp

\* the protocol layer hands one tools/call request to call_tool
CallTool ==
    /\ mcp.state = "serving"
    /\ ~mcp.called
    /\ "tools" \notin DOMAIN mcp
    /\ \E name \in ToolNames, arguments \in Payloads :
         \E env \in McpEnvironments(name, mcp.store) :
            mcp' = [state |-> "serving", called |-> TRUE, store |-> mcp.store,
                    contracts |-> mcp.contracts,
                    name |-> name, arguments |-> arguments, env |-> env,
                    answer |-> call_tool(name, arguments, mcp.contracts, env)]
    /\ UNCHANGED core
    /\ UNCHANGED others_mcp

NextMcp == LoadServer \/ ListTools \/ CallTool

InitMcp == InitCli

SpecMcp == InitMcp /\ [][NextMcp]_vars

\* dispatch(name, arguments) called directly, in the same environment
DirectAnswer ==
    LET done == dispatch(mcp.name, mcp.arguments, mcp.env, FALSE)
    IN  [outcome |-> done.outcome, ret |-> done.ret, raised |-> done.raised]

(***************************************************************************)
(* C22.  For every tool name other than the list-capabilities meta-tool    *)
(* and every arguments value, call_tool(name, arguments) returns the       *)
(* envelope dispatch(name, arguments) returns.                             *)
(***************************************************************************)
C22_CallToolIsDispatch ==
    (mcp.called /\ mcp.name # MetaTool) => mcp.answer = DirectAnswer

\* id.replace(".", "_") of the ids and of the meta-tool's name
Underscored(id) ==
    CASE id = "infra.spawn_instance" -> "infra_spawn_instance"
      [] id = "text.normalize_markdown" -> "text_normalize_markdown"
      [] id = "nonexistent.id" -> "nonexistent_id"
      [] OTHER -> "toolbox_list_capabilities"

Listed == mcp.state = "serving" /\ "tools" \in DOMAIN mcp

ToolNamed(name) == {i \in 1..Len(mcp.tools) : mcp.tools[i].name = name}

MetaCalled == mcp.called /\ mcp.name = MetaTool

(***************************************************************************)
(* C23.  Every capability id of the registry's contract map appears as a   *)
(* tool of the adapter, named by the id with dots replaced by underscores, *)
(* together with the list-capabilities meta-tool; each tool's input schema *)
(* is the contract's input_schema unmodified; and the meta-tool returns    *)
(* exactly the sorted ids of the registry's contract map.                  *)
(***************************************************************************)
C23_ToolsMirrorRegistry ==
    /\ Listed
        => /\ \A id \in DOMAIN CONTRACTS : ToolNamed(Underscored(id)) # {}
           /\ ToolNamed(Underscored(MetaTool)) # {}
           /\ \A id \in DOMAIN mcp.contracts :
                \A i \in ToolNamed(id) \cup ToolNamed(Underscored(id)) :
                    mcp.tools[i].inputSchema = InputSchemaJson(mcp.contracts[id])
    /\ MetaCalled
        => /\ mcp.answer.outcome = "returned"
           /\ mcp.answer.ret = [ok |-> TRUE, result |-> SortedKeys(CONTRACTS)]

(***************************************************************************)
(* capabilities/text_normalize_markdown/implementation.py.  A text is a    *)
(* sequence of characters: a letter, a blank, "\n" (LF) and "\r" (CR).     *)
(***************************************************************************)
others_norm == <<cli, mcp, infra, pager>>

LF == "LF"

CR == "CR"

Chars == {"a", " ", LF, CR}

MaxTextLen == 4

Texts == UNION {[1..n -> Chars] : n \in 0..MaxTextLen}

\* str.isspace of one character
IsSpace(c) == c \in {" ", LF, CR}

\* str.splitlines(): a line ends at "\n", "\r" or "\r\n"; the terminators are
\* dropped, and a terminator at the end of the text opens no further line
RECURSIVE SplitFrom(_, _, _)
SplitFrom(text, line, i) ==
    IF i > Len(text) THEN (IF line = <<>> THEN <<>> ELSE <<line>>)
    ELSE IF text[i] = LF THEN <<line>> \o SplitFrom(text, <<>>, i + 1)
    ELSE IF text[i] = CR
    THEN <<line>> \o SplitFrom(text, <<>>,
                               IF i < Len(text) /\ text[i + 1] = LF THEN i + 2 ELSE i + 1)
    ELSE SplitFrom(text, Append(line, text[i]), i + 1)

splitlines(text) == SplitFrom(text, <<>>, 1)

\* str.rstrip()
RECURSIVE rstrip(_)
rstrip(line) ==
    IF line # <<>> /\ IsSpace(line[Len(line)])
    THEN rstrip(SubSeq(line, 1, Len(line) - 1))
    ELSE line

\* "\n".join(lines)
RECURSIVE JoinLines(_)
JoinLines(lines) ==
    IF lines = <<>> THEN <<>>
    ELSE IF Len(lines) = 1 THEN lines[1]
    ELSE lines[1] \o <<LF>> \o JoinLines(Tail(lines))

EndsWithNewline(text) == text # <<>> /\ text[Len(text)] = LF

\* the options argument: None, or a dict giving each key True, False or not at all
OptionValues == {"absent", "true", "false"}

NoOptions == [none |-> TRUE, trim_trailing_whitespace |-> "absent",
              ensure_final_newline |-> "absent"]

NormalizeOptions ==
    {NoOptions} \cup {[none |-> FALSE, trim_trailing_whitespace |-> t,
                       ensure_final_newline |-> e] : t, e \in OptionValues}

\* bool(opts.get(key, True))
OptionOn(value) == value # "false"

\* normalize_markdown(text, options)
normalize_markdown(text, options) ==
    LET lines == splitlines(text)
        trimmed_lines == [i \in 1..Len(lines) |-> rstrip(lines[i])]
        trim == OptionOn(options.trim_trailing_whitespace)
        ensure == OptionOn(options.ensure_final_newline)
        trimmed == IF trim THEN JoinLines(trimmed_lines) ELSE text
        changes1 == IF trim /\ trimmed_lines # lines
                    THEN <<"trim_trailing_whitespace">> ELSE <<>>
        append == ensure /\ ~EndsWithNewline(trimmed)
    IN  [text |-> IF append THEN trimmed \o <<LF>> ELSE trimmed,
         changes |-> IF append THEN Append(changes1, "ensure_final_newline") ELSE changes1]

\* one call with a str text
Normalize ==
    /\ ~norm.done
    /\ \E text \in Texts, options \in NormalizeOptions :
         norm' = [done |-> TRUE, text |-> text, options |-> options,
                  result |-> normalize_markdown(text, options)]
    /\ UNCHANGED core
    /\ UNCHANGED others_norm

NextText == Normalize

SpecText == InitCli /\ [][NextText]_vars

\* the lines of a text: what stands between its "\n"s, the text after the last one
\* being a line only when it is not empty
RECURSIVE LinesFrom(_, _, _)
LinesFrom(text, line, i) ==
    IF i > Len(text) THEN (IF line = <<>> THEN <<>> ELSE <<line>>)
    ELSE IF text[i] = LF THEN <<line>> \o LinesFrom(text, <<>>, i + 1)
    ELSE LinesFrom(text, Append(line, text[i]), i + 1)

\* every line without its trailing whitespace, each terminated by "\n"; the empty
\* text is one empty line
RECURSIVE Terminated(_)
Terminated(lines) ==
    IF lines = <<>> THEN <<>>
    ELSE rstrip(lines[1]) \o <<LF>> \o Terminated(Tail(lines))

TrimmedAndTerminated(text) ==
    IF text = <<>> THEN <<LF>> ELSE Terminated(LinesFrom(text, <<>>, 1))

SomeLineTrimmed(text) ==
    \E i \in 1..Len(LinesFrom(text, <<>>, 1)) :
        rstrip(LinesFrom(text, <<>>, 1)[i]) # LinesFrom(text, <<>>, 1)[i]

Has(changes, change) == \E i \in 1..Len(changes) : changes[i] = change

DefaultOptions == norm.done /\ norm.options = NoOptions

(***************************************************************************)
(* C24.  With default options, normalize_markdown of any string returns    *)
(* the input with trailing whitespace removed from every line and          *)
(* terminated by a final newline; changes contains                         *)
(* trim_trailing_whitespace whenever some line was trimmed and             *)
(* ensure_final_newline whenever the input did not end with a newline.     *)
(***************************************************************************)
C24_TrimmedAndTerminated ==
    DefaultOptions
        => /\ norm.result.text = TrimmedAndTerminated(norm.text)
           /\ SomeLineTrimmed(norm.text)
                => Has(norm.result.changes, "trim_trailing_whitespace")
           /\ ~EndsWithNewline(norm.text)
                => Has(norm.result.changes, "ensure_final_newline")

(***************************************************************************)
(* C29.  For every input string and every options value, result.changes   *)
(* is empty if and only if result.text equals the input text.              *)
(***************************************************************************)
C29_ChangesIffChanged ==
    norm.done => (norm.result.changes = <<>> <=> norm.result.text = norm.text)

(***************************************************************************)
(* capabilities/infra_*/implementation.py: the container lifecycle         *)
(* capabilities.  A name is a sequence of characters: "a" stands for the   *)
(* characters of [a-zA-Z0-9._-], ";" for every other character but the     *)
(* newline.                                                                *)
(***************************************************************************)
others_infra == <<cli, mcp, norm, pager>>

NameChars == {"a", ";", LF}

MaxNameLen == 2

Names == UNION {[1..n -> NameChars] : n \in 0..MaxNameLen}

\* the class [a-zA-Z0-9._-]
SafeChar(c) == c = "a"

\* re.compile(r"^[a-zA-Z0-9._-]+$").match(value): `$` matches at the end of the
\* string and also just before a newline that ends it
_SAFE_NAME_match(value) ==
    LET body == IF value # <<>> /\ value[Len(value)] = LF
                THEN SubSeq(value, 1, Len(value) - 1) ELSE value
    IN  /\ body # <<>>
        /\ \A i \in 1..Len(body) : SafeChar(body[i])

Hosts == {"local", "vps"}

\* what the host running the capability has: shutil.which("ssh"),
\* shutil.which("docker"), and the return code of the command it runs
Worlds == [ssh : BOOLEAN, docker : BOOLEAN, returncode : {0, 1}]

\* the env argument: None, or a dict
EnvKeys == {"NAME", "REPO"}

EnvValues == {<<"a">>, <<";">>}

NoEnv == [none |-> TRUE, vars |-> <<>>]

EnvMaps ==
    {NoEnv} \cup {[none |-> FALSE, vars |-> vs] :
                    vs \in UNION {[ks -> EnvValues] : ks \in SUBSET EnvKeys}}

\* a subprocess.run: locally or through ssh, the names its command line is built
\* from, and the variables it is given
Command(via, words, env) == [via |-> via, words |-> words, env |-> env]

NoVars == [k \in {} |-> <<>>]

\* how a call ended: the message of the exception it raised ("" when it returned)
\* and the commands it ran
Ran(error, commands) == [error |-> error, commands |-> commands]

Via(host) == IF host = "local" THEN "local" ELSE "ssh"

\* compose_env that sets NAME after the caller's variables
ComposeEnvNameLast(name, env) ==
    [k \in {"NAME"} \cup DOMAIN env.vars |-> IF k = "NAME" THEN name ELSE env.vars[k]]

\* compose_env = {"NAME": name}; if env: compose_env.update(env)
ComposeEnv(name, env) ==
    [k \in {"NAME"} \cup DOMAIN env.vars |->
        IF k \in DOMAIN env.vars THEN env.vars[k] ELSE name]

spawn_instance(template, name, host, env, world) ==
    IF host # "local" /\ ~world.ssh THEN Ran("ssh not found in PATH", <<>>)
    ELSE IF ~_SAFE_NAME_match(template) THEN Ran("Invalid template name", <<>>)
    ELSE IF ~_SAFE_NAME_match(name) THEN Ran("Invalid instance name", <<>>)
    ELSE IF host = "local" /\ ~world.docker THEN Ran("docker not found in PATH", <<>>)
    ELSE Ran(IF world.returncode # 0 THEN "compose up failed" ELSE "",
             <<Command(Via(host), <<template, name>>, ComposeEnv(name, env))>>)

deploy_stack(host, stack, dry_run, world) ==
    IF ~world.ssh THEN Ran("ssh not found in PATH", <<>>)
    ELSE IF ~_SAFE_NAME_match(stack) THEN Ran("Invalid stack name", <<>>)
    ELSE IF dry_run THEN Ran("", <<>>)
    ELSE Ran(IF world.returncode # 0 THEN "remote command failed" ELSE "",
             <<Command("ssh", <<stack>>, NoVars)>>)

destroy_stack(host, stack, world) ==
    IF ~world.ssh THEN Ran("ssh not found in PATH", <<>>)
    ELSE IF ~_SAFE_NAME_match(stack) THEN Ran("Invalid stack name", <<>>)
    ELSE Ran(IF world.returncode # 0 THEN "remote command failed" ELSE "",
             <<Command("ssh", <<stack>>, NoVars)>>)

destroy_instance(project, host, world) ==
    IF host # "local" /\ ~world.ssh THEN Ran("ssh not found in PATH", <<>>)
    ELSE IF ~_SAFE_NAME_match(project) THEN Ran("Invalid project name", <<>>)
    ELSE IF host = "local" /\ ~world.docker THEN Ran("docker not found in PATH", <<>>)
    ELSE Ran(IF world.returncode # 0 THEN "compose down failed" ELSE "",
             <<Command(Via(host), <<project>>, NoVars)>>)

\* template is None or a str; None and '' skip the check
list_instances(template, host, world) ==
    IF host # "local" /\ ~world.ssh THEN Ran("ssh not found in PATH", <<>>)
    ELSE IF template # <<>> /\ ~_SAFE_NAME_match(template)
    THEN Ran("Invalid template filter", <<>>)
    ELSE IF host = "local" /\ ~world.docker THEN Ran("docker not found in PATH", <<>>)
    ELSE Ran(IF world.returncode # 0 THEN "docker ps failed" ELSE "",
             <<Command(Via(host), IF template # <<>> THEN <<template>> ELSE <<>>, NoVars)>>)

\* one call: the capability, the values it must validate, and what it did
Called5(op, values, name, env, world, result) ==
    [done |-> TRUE, op |-> op, values |-> values, name |-> name, env |-> env,
     world |-> world, result |-> result]

SpawnInstance ==
    /\ ~infra.done
    /\ \E template \in Names, name \in Names, host \in Hosts, env \in EnvMaps,
          world \in Worlds :
         infra' = Called5("infra.spawn_instance", {template, name}, name, env, world,
                          spawn_instance(template, name, host, env, world))
    /\ UNCHANGED core
    /\ UNCHANGED others_infra

DeployStack ==
    /\ ~infra.done
    /\ \E stack \in Names, host \in Hosts, dry_run \in BOOLEAN, world \in Worlds :
         infra' = Called5("infra.deploy_stack", {stack}, stack, NoEnv, world,
                          deploy_stack(host, stack, dry_run, world))
    /\ UNCHANGED core
    /\ UNCHANGED others_infra

DestroyStack ==
    /\ ~infra.done
    /\ \E stack \in Names, host \in Hosts, world \in Worlds :
         infra' = Called5("infra.destroy_stack", {stack}, stack, NoEnv, world,
                          destroy_stack(host, stack, world))
    /\ UNCHANGED core
    /\ UNCHANGED others_infra

DestroyInstance ==
    /\ ~infra.done
    /\ \E project \in Names, host \in Hosts, world \in Worlds :
         infra' = Called5("infra.destroy_instance", {project}, project, NoEnv, world,
                          destroy_instance(project, host, world))
    /\ UNCHANGED core
    /\ UNCHANGED others_infra

ListInstances ==
    /\ ~infra.done
    /\ \E template \in Names, host \in Hosts, world \in Worlds :
         infra' = Called5("infra.list_instances", {template}, template, NoEnv, world,
                          list_instances(template, host, world))
    /\ UNCHANGED core
    /\ UNCHANGED others_infra

NextInfra ==
    SpawnInstance \/ DeployStack \/ DestroyStack \/ DestroyInstance \/ ListInstances

SpecInfra == InitCli /\ [][NextInfra]_vars

\* the value contains a character outside [a-zA-Z0-9._-]
Unsafe(value) == \E i \in 1..Len(value) : ~SafeChar(value[i])

InvalidMessages ==
    {"Invalid template name", "Invalid instance name", "Invalid stack name",
     "Invalid project name", "Invalid template filter"}

(***************************************************************************)
(* C25.  Whenever the template, name, stack or project given to one of the *)
(* five infra capabilities contains a character outside [a-zA-Z0-9._-],    *)
(* the call fails with an 'Invalid ...' message and no local or remote     *)
(* command is executed.                                                    *)
(***************************************************************************)
C25_UnsafeNamesRejected ==
    (infra.done /\ \E value \in infra.values : Unsafe(value))
        => /\ infra.result.error \in InvalidMessages
           /\ infra.result.commands = <<>>

Spawned == infra.done /\ infra.op = "infra.spawn_instance" /\ infra.result.commands # <<>>

CallerGaveName == "NAME" \in DOMAIN infra.env.vars

(***************************************************************************)
(* C26 as stated.  spawn_instance always passes NAME equal to the instance *)
(* name in the environment given to the compose command, together with     *)
(* every caller-provided variable.                                         *)
(***************************************************************************)
C26_NameIsInstanceName ==
    Spawned
        => /\ infra.result.commands[1].env["NAME"] = infra.name
           /\ \A k \in DOMAIN infra.env.vars :
                infra.result.commands[1].env[k] = infra.env.vars[k]

(***************************************************************************)
(* C26 amended.  The compose command is given every caller-provided        *)
(* variable with the caller's value, and NAME: equal to the instance name  *)
(* when the caller's env has no NAME of its own, and equal to the caller's *)
(* NAME otherwise.                                                         *)
(***************************************************************************)
C26_NameUnlessCallerGaveOne ==
    Spawned
        => /\ Len(infra.result.commands) = 1
           /\ DOMAIN infra.result.commands[1].env = {"NAME"} \cup DOMAIN infra.env.vars
           /\ \A k \in DOMAIN infra.env.vars :
                infra.result.commands[1].env[k] = infra.env.vars[k]
           /\ ~CallerGaveName => infra.result.commands[1].env["NAME"] = infra.name

\* a spawn whose caller gave a NAME other than the instance name, and another variable
C26_Witness ==
    /\ Spawned
    /\ CallerGaveName
    /\ infra.env.vars["NAME"] # infra.name
    /\ "REPO" \in DOMAIN infra.env.vars
    /\ infra.result.commands[1].env["NAME"] = infra.env.vars["NAME"]

\* the call is to an id whose resolution was attempted before and left no callable
RetriesResolution == CallRegistered /\ call.retry /\ ~call.memo

\* the call got as far as REGISTRY[capability_id](**payload)
ReachedCallable == CallPayloadConforms /\ call.payload.kind = "object"

(***************************************************************************)
(* C27.  A failed resolution is not cached: after a dispatch whose         *)
(* implementation could not be resolved the memo slot is still empty, and  *)
(* the next dispatch to the same id that reaches the callable attempts the *)
(* resolution again and, when the module now imports and has the symbol,   *)
(* invokes the implementation.                                             *)
(***************************************************************************)
C27_FailedResolutionIsRetried ==
    /\ ResolutionFailed
        => /\ ~resolved[call.capability_id]
           /\ outcome = "returned" /\ ret.ok = FALSE
    /\ (RetriesResolution /\ ReachedCallable)
        => /\ effects.imported
           /\ call.env.import = "ok"
                => /\ effects.invoked
                   /\ resolved[call.capability_id]

\* a dispatch after a failed resolution of the same id resolved it and ran the
\* implementation
C27_Witness ==
    /\ RetriesResolution
    /\ ReachedCallable
    /\ call.env.import = "ok"
    /\ effects.imported /\ effects.invoked
    /\ outcome = "returned" /\ ret.ok = TRUE

(***************************************************************************)
(* core/bsport/list_offers.py: collect_offers.  The API answers every      *)
(* fetch with a page: some offers and a link to the next page, taken from  *)
(* a finite set of page URLs, or with a failure.                           *)
(***************************************************************************)
others_offers == <<cli, mcp, norm, infra>>

\* build_url(company) and the other URLs the API links to
FirstPage == "offer/?company=995&ordering=-date_start"

Pages == {FirstPage, "offer/?page=2", "offer/?page=3"}

\* links.next: None, or a page URL
NoUrl == ""

\* an offer as the loop treats it: starting before now ("past"), appended
\* ("upcoming"), or passed over by a `continue` ("filtered")
OfferKinds == {"past", "upcoming", "filtered"}

MaxResults == 2

ResultLists == UNION {[1..n -> OfferKinds] : n \in 0..MaxResults}

\* what fetch_json(url) gives: a payload, or the exception it raises
Page(error, results, next) == [error |-> error, results |-> results, next |-> next]

FetchErrors == {"DependencyError", "NetworkError", "InvalidResponseError"}

Responses ==
    {Page(err, <<>>, NoUrl) : err \in FetchErrors}
        \cup {Page("", rs, next) : rs \in ResultLists, next \in Pages \cup {NoUrl}}

\* the limit argument: None, or an int
NoLimit == [none |-> TRUE, n |-> 0]

Limits == {NoLimit} \cup {[none |-> FALSE, n |-> n] : n \in 1..2}

\* more offers than pages without a repeat can give
MaxOffers == MaxResults * Cardinality(Pages) + 1

\* the `for offer in results` loop: the offers collected and whether it broke out
RECURSIVE Scan(_, _, _, _)
Scan(results, i, offers, limit) ==
    IF i > Len(results) THEN [offers |-> offers, stop |-> FALSE]
    ELSE IF results[i] = "past" THEN [offers |-> offers, stop |-> TRUE]
    ELSE IF results[i] = "filtered" THEN Scan(results, i + 1, offers, limit)
    ELSE IF ~limit.none /\ offers + 1 >= limit.n
    THEN [offers |-> offers + 1, stop |-> TRUE]
    ELSE Scan(results, i + 1, IF offers < MaxOffers THEN offers + 1 ELSE offers, limit)

\* the loop without its guard against a repeated URL
SeenNever(url, seen_urls) == FALSE

\* `if url in seen_urls`
Seen(url, seen_urls) == url \in seen_urls

\* collect_offers(...) is called: url = build_url(company), nothing seen
CollectOffers ==
    /\ pager.pc = "idle"
    /\ \E limit \in Limits :
         pager' = [pc |-> "while", url |-> FirstPage, seen_urls |-> {}, offers |-> 0,
                   limit |-> limit, fetches |-> [p \in Pages |-> 0], error |-> ""]
    /\ UNCHANGED core
    /\ UNCHANGED others_offers

\* `while url:` and the test of seen_urls
LoopHead ==
    /\ pager.pc = "while"
    /\ pager' = IF pager.url = NoUrl
                THEN [pager EXCEPT !.pc = "returned"]
                ELSE IF Seen(pager.url, pager.seen_urls)
                THEN [pager EXCEPT !.pc = "raised", !.error = "PaginationLoopError"]
                ELSE [pager EXCEPT !.pc = "fetch",
                                   !.seen_urls = pager.seen_urls \cup {pager.url}]
    /\ UNCHANGED core
    /\ UNCHANGED others_offers

\* fetch_json(url), the scan of its results, and url = links.next
Fetch ==
    /\ pager.pc = "fetch"
    /\ \E page \in Responses :
         LET scanned == Scan(page.results, 1, pager.offers, pager.limit)
             fetched == [pager.fetches EXCEPT ![pager.url] = IF @ < 2 THEN @ + 1 ELSE @]
         IN  pager' = IF page.error # ""
                      THEN [pager EXCEPT !.pc = "raised", !.error = page.error,
                                         !.fetches = fetched]
                      ELSE IF scanned.stop
                      THEN [pager EXCEPT !.pc = "returned", !.offers = scanned.offers,
                                         !.fetches = fetched]
                      ELSE [pager EXCEPT !.pc = "while", !.offers = scanned.offers,
                                         !.fetches = fetched, !.url = page.next]
    /\ UNCHANGED core
    /\ UNCHANGED others_offers

NextOffers == CollectOffers \/ LoopHead \/ Fetch

\* the loop is sequential code: a step that can be taken is taken
SpecOffers == InitCli /\ [][NextOffers]_vars /\ WF_vars(NextOffers)

Paging == pager.pc # "idle"

NoRefetch == Paging => \A p \in Pages : pager.fetches[p] <= 1

\* a step of the loop head that finds its URL among the fetched ones raises
LoopRaises ==
    (pager.pc = "while" /\ pager.url # NoUrl /\ pager.fetches[pager.url] > 0)
        => /\ pager'.pc = "raised"
           /\ pager'.error = "PaginationLoopError"
           /\ pager'.fetches = pager.fetches

LoopEnded == pager.pc \in {"returned", "raised"}

(***************************************************************************)
(* C28.  collect_offers never fetches the same page URL twice: following a *)
(* next link to an already fetched URL raises PaginationLoopError, and for *)
(* responses drawn from a finite set of page URLs the loop terminates.     *)
(***************************************************************************)
C28_NoRefetchAndTerminates ==
    /\ []NoRefetch
    /\ [][LoopRaises]_vars
    /\ <>LoopEnded

\* the loop followed a link back to a page it had fetched and raised
C28_Witness ==
    /\ Paging
    /\ pager.pc = "raised"
    /\ pager.error = "PaginationLoopError"
    /\ pager.url \in pager.seen_urls
    /\ Cardinality(pager.seen_urls) >= 2

\* the run is over the whole contract set (no --capability)
WholeSetRun == gen.run.kind = "skillgen" /\ gen.run.args.capability = <<>>

\* both ids were generated at one path: the later one replaced the earlier
Overwritten(a, b) ==
    /\ a \in gen.run.generated /\ b \in gen.run.generated
    /\ SlugOf(a) = SlugOf(b)

\* nothing before the run stood in b's way, and b was skipped because a's document
\* was at its path
Suppressed(a, b) ==
    /\ a \in gen.run.generated /\ b \in gen.run.skipped
    /\ SlugOf(a) = SlugOf(b)
    /\ ~gen.run.skills_before[SlugOf(b)].exists
    /\ ~DocumentedBefore(b)

(***************************************************************************)
(* C30.  In one skill-generation run over the whole contract set no two    *)
(* distinct capability ids are written to the same document path: no id's  *)
(* SKILL.md is overwritten or suppressed by the document of another id     *)
(* with the same slug, with or without --force.                            *)
(***************************************************************************)
C30_NoSlugCollision ==
    WholeSetRun
        => \A a, b \in GenIds :
             a # b => ~Overwritten(a, b) /\ ~Suppressed(a, b)
====
